---- MODULE Spec2Model ----
(***************************************************************************)
(* Model of the attention notebooks (Lab12_Transformers2.ipynb and         *)
(* Assignment1_6595203.ipynb).                                             *)
(*                                                                         *)
(* Tensors are records [shape, data]: shape is the sequence of dimension   *)
(* sizes and data maps every index tuple (1-based) to a value.  Floating   *)
(* point values are fixed-point integers in units of 1/FX; attention       *)
(* weights are kept in the finer unit 1/WFX.  Python axis numbers are      *)
(* 0-based, so Python axis a of a tensor is index a + 1 here and Python    *)
(* axis -1 is index Len(shape).                                            *)
(***************************************************************************)
EXTENDS Integers, Sequences, FiniteSets, TLC

VARIABLES
    op,        \* name of the operation executed last
    q, k, v,   \* arguments of the last scaled_dot_product call
    mask,      \* its mask argument (NoMask for mask=None)
    sdp,       \* what that call returned
    mha,       \* the MultiheadAttention object (or the error of its constructor)
    mha_x,     \* argument of the last MultiheadAttention.forward call
    mha_out,   \* what that call returned
    posenc,    \* the PositionalEncoding object
    pe_x,      \* the caller's tensor passed to the last PositionalEncoding.forward
    pe_out,    \* what that call returned
    pe_prev,   \* argument and result of the forward call before the last one
    params,    \* the trainable parameters the optimizer owns
    steps,     \* number of optimizer steps taken
    enc,       \* the TransformerEncoder object (or the error of its constructor)
    enc_x,     \* the caller's tensor passed to the encoder
    enc_mask,  \* the caller's mask argument
    enc_out,   \* what the last TransformerEncoder.forward call returned
    enc_prev,  \* what the forward call before the last one returned
    enc_maps,  \* what the last get_attention_maps call returned
    net,       \* the TransformerPredictor object with its parameters
    net_out,   \* what the last TransformerPredictor.forward call returned
    net_prev,  \* what the forward call before the last one returned
    loop,      \* position and bookkeeping of the training / validation loop
    rng,       \* state of torch's random number generator
    dataset,   \* the ReverseDataset object
    item,      \* what the last ReverseDataset.__getitem__ call returned
    loader,    \* the DataLoader over dataset
    val,       \* position and bookkeeping of the validation loop over loader
    predicted_text, \* the decoded predictions, one text per test row
    results,        \* results of the prediction extraction loop
    broken_count,   \* its count of predictions without the keyword
    new_results,    \* results after the cleanup loop
    post,           \* position of the post-processing cells
    features,  \* argument of the last data_collator_customized call
    batch      \* what that call returned

vars == <<op, q, k, v, mask, sdp, mha, mha_x, mha_out,
          posenc, pe_x, pe_out, pe_prev, params, steps,
          enc, enc_x, enc_mask, enc_out, enc_prev, enc_maps,
          net, net_out, net_prev, loop, rng,
          dataset, item, loader, val,
          predicted_text, results, broken_count, new_results, post,
          features, batch>>

sdpVars == <<q, k, v, mask, sdp>>
mhaVars == <<mha, mha_x, mha_out>>
peVars  == <<posenc, pe_x, pe_out, pe_prev, params, steps>>
encVars == <<enc, enc_x, enc_mask, enc_out, enc_prev, enc_maps>>
netVars == <<net, net_out, net_prev, loop>>
dataVars == <<dataset, item, loader, val>>
postVars == <<predicted_text, results, broken_count, new_results, post>>
colVars  == <<features, batch>>
auxVars  == <<dataVars, postVars, colVars>>

(***************************************************************************)
(* Bounds of the model.                                                    *)
(***************************************************************************)
MaxB    == 2    \* batch sizes 1..MaxB
MaxH    == 2    \* head counts 1..MaxH
MaxT    == 2    \* sequence lengths 1..MaxT
MaxD    == 2    \* feature sizes 1..MaxD
MaxSeed == 2    \* tensor contents 0..MaxSeed
MaxE    == 4    \* embedding sizes 1..MaxE
MaxIn   == 4    \* input feature sizes of MultiheadAttention 1..MaxIn
MaxLen  == 3    \* max_len of PositionalEncoding 1..MaxLen
MaxSteps == 2   \* optimizer steps taken

(***************************************************************************)
(* Fixed-point arithmetic standing for the float32 arithmetic of torch.    *)
(***************************************************************************)
FX  == 1000
WFX == FX * FX

Abs(x) == IF x < 0 THEN -x ELSE x

\* the float nan (0.0 / 0.0): a value outside the range of the fixed-point
\* numbers; every arithmetic operation on it gives nan
NaN == -1073741824

\* a * b / unit without leaving the 32-bit range: for the fine unit WFX the
\* second factor is split into its multiple of FX and the rest
MulDiv(a, b, unit) ==
    IF unit = FX THEN (a * b) \div FX
    ELSE (a * (b \div FX)) \div FX + (a * (b % FX)) \div WFX

RECURSIVE SeqSum(_)
SeqSum(s) == IF s = <<>> THEN 0 ELSE Head(s) + SeqSum(Tail(s))

RECURSIVE SeqMax(_)
SeqMax(s) ==
    IF Len(s) = 1 THEN Head(s)
    ELSE LET m == SeqMax(Tail(s)) IN IF Head(s) > m THEN Head(s) ELSE m

RECURSIVE SeqProd(_)
SeqProd(s) == IF s = <<>> THEN 1 ELSE Head(s) * SeqProd(Tail(s))

\* floor(sqrt(n)), by Newton's iteration from r
RECURSIVE Newton(_, _)
Newton(n, r) ==
    LET r2 == (r + n \div r) \div 2
    IN  IF r2 >= r THEN r ELSE Newton(n, r2)

\* math.sqrt(n) in units of 1/FX, for an integer n >= 1
SqrtFx(n) == Newton(n * FX * FX, n * FX * FX)

\* exp(x) in units of 1/FX for x <= 0 (x in units of 1/FX): the argument is
\* halved until the cubic Taylor polynomial is accurate, then squared back
RECURSIVE ExpFx(_)
ExpFx(x) ==
    IF x < -(7 * FX) THEN 0
    ELSE IF x < -(FX \div 4)
         THEN LET h == ExpFx(x \div 2) IN (h * h + FX \div 2) \div FX
         ELSE FX + x + (x * x + FX) \div (2 * FX)
                 + (x * x * x) \div (6 * FX * FX)

(***************************************************************************)
(* Tensors.                                                                *)
(***************************************************************************)
Rank(t) == Len(t.shape)

MaxOf(shape) == IF shape = <<>> THEN 0 ELSE SeqMax(shape)

Idx(shape) ==
    {s \in [1..Len(shape) -> 1..MaxOf(shape)] :
        \A i \in 1..Len(shape) : s[i] <= shape[i]}

Tensor(shape, f(_)) == [shape |-> shape, data |-> [s \in Idx(shape) |-> f(s)]]

\* the tensor with its entries computed (torch evaluates every operation
\* when it is called)
Force(t) == IF t.data = t.data THEN t ELSE t

\* Python axis number (0-based, negative from the end) to an index of shape
PyAxis(a, rank) == IF a < 0 THEN rank + a + 1 ELSE a + 1

\* s with its component at position i replaced by x
Put(s, i, x) == [s EXCEPT ![i] = x]

\* the leading axes of a shape or index (all but the last two)
Lead(s) == SubSeq(s, 1, Len(s) - 2)

\* t.transpose(-2, -1)
Transpose(t) ==
    LET r == Rank(t)
    IN  Tensor(Lead(t.shape) \o <<t.shape[r], t.shape[r - 1]>>,
               LAMBDA s : t.data[Lead(s) \o <<s[r], s[r - 1]>>])

\* a @ b is defined when the inner sizes agree and the leading axes are equal
MatMulOk(a, b) ==
    /\ Rank(a) >= 2
    /\ Rank(b) = Rank(a)
    /\ Lead(a.shape) = Lead(b.shape)
    /\ a.shape[Rank(a)] = b.shape[Rank(b) - 1]

\* a @ b: batched matrix product over the last two axes; unit is the
\* fixed-point unit of a's values, the result is in the unit of b's values
MatMul(a, b, unit) ==
    LET r == Rank(a)
        n == a.shape[r]
    IN  Tensor(Lead(a.shape) \o <<a.shape[r - 1], b.shape[r]>>,
               LAMBDA s :
                 IF \E m \in 1..n : \/ a.data[Lead(s) \o <<s[r - 1], m>>] = NaN
                                    \/ b.data[Lead(s) \o <<m, s[r]>>] = NaN
                 THEN NaN
                 ELSE SeqSum([m \in 1..n |->
                          MulDiv(a.data[Lead(s) \o <<s[r - 1], m>>],
                                 b.data[Lead(s) \o <<m, s[r]>>], unit)]))

\* t / math.sqrt(n); math.sqrt(0) is 0.0 and a float division by 0.0 raises
\* nothing: 0 / 0.0 is nan (the only case that occurs: the divisor is 0 when
\* the scores are sums over an empty feature axis, that is 0)
DivSqrt(t, n) ==
    IF n = 0 THEN Tensor(t.shape, LAMBDA s : NaN)
    ELSE LET root == SqrtFx(n)
         IN  Tensor(t.shape, LAMBDA s : (t.data[s] * FX) \div root)

\* torch.nn.functional.softmax(t, dim): along axis `axis` the maximum is
\* subtracted, the exponentials are taken and divided by their sum; the
\* weights are in units of 1/WFX; a nan on the line makes the line nan
Softmax(t, axis) ==
    LET n         == t.shape[axis]
        line(s)   == [j \in 1..n |-> t.data[Put(s, axis, j)]]
        e(s, j)   == ExpFx(t.data[Put(s, axis, j)] - SeqMax(line(s)))
        total(s)  == SeqSum([j \in 1..n |-> e(s, j)])
    IN  Tensor(t.shape,
               LAMBDA s : IF \E j \in 1..n : line(s)[j] = NaN THEN NaN
                          ELSE (e(s, s[axis]) * WFX) \div total(s))

\* all but the last component
Front(s) == SubSeq(s, 1, Len(s) - 1)

\* position (0-based) of index s in the row-major layout of shape
RECURSIVE FlatIndex(_, _)
FlatIndex(s, shape) ==
    IF s = <<>> THEN 0
    ELSE FlatIndex(Front(s), Front(shape)) * shape[Len(shape)] + (s[Len(s)] - 1)

\* the index at position n (0-based) of the row-major layout of shape
RECURSIVE Unflat(_, _)
Unflat(n, shape) ==
    IF shape = <<>> THEN <<>>
    ELSE Unflat(n \div shape[Len(shape)], Front(shape))
            \o <<(n % shape[Len(shape)]) + 1>>

\* t.reshape(shape) is defined when the element counts agree
ReshapeOk(t, shape) == SeqProd(t.shape) = SeqProd(shape)

\* t.reshape(shape)
Reshape(t, shape) ==
    Tensor(shape, LAMBDA s : t.data[Unflat(FlatIndex(s, shape), t.shape)])

\* t.permute(perm), perm the 0-based axis numbers
Permute(t, perm) ==
    Tensor([i \in 1..Rank(t) |-> t.shape[perm[i] + 1]],
           LAMBDA s : t.data[[a \in 1..Rank(t) |->
                          s[CHOOSE i \in 1..Rank(t) : perm[i] + 1 = a]]])

\* t.chunk(n, dim=-1)[c - 1]: the c-th of n equal slices of the last axis
Chunk(t, n, c) ==
    LET r    == Rank(t)
        size == t.shape[r] \div n
    IN  Tensor(Put(t.shape, r, size),
               LAMBDA s : t.data[Put(s, r, (c - 1) * size + s[r])])

\* nn.Linear is defined on inputs whose last axis has in_features entries
LinearOk(x, w) == Rank(x) >= 1 /\ x.shape[Rank(x)] = w.shape[2]

\* nn.Linear with weight w [out_features, in_features] and bias b
Linear(x, w, b) ==
    LET r == Rank(x)
    IN  Tensor(Put(x.shape, r, w.shape[1]),
               LAMBDA s : SeqSum([i \in 1..w.shape[2] |->
                              MulDiv(x.data[Put(s, r, i)], w.data[<<s[r], i>>], FX)])
                          + b.data[<<s[r]>>])

(***************************************************************************)
(* scaled_dot_product.                                                     *)
(***************************************************************************)
NoTensor == [shape |-> <<0>>, data |-> <<>>]
NoMask   == NoTensor

SdpError == [err |-> TRUE, output |-> NoTensor, attention_weight |-> NoTensor,
             sqrt_arg |-> 0]

\* scaled_dot_product with the division by math.sqrt(...) left out
ScaledDotProductUnscaled(qq, kk, vv, mm) ==
    IF ~MatMulOk(qq, Transpose(kk)) THEN SdpError
    ELSE
      LET score_matrix     == Force(MatMul(qq, Transpose(kk), FX))
          attention_weight == Force(Softmax(score_matrix, PyAxis(1, Rank(score_matrix))))
      IN  IF ~MatMulOk(attention_weight, vv) THEN SdpError
          ELSE [err              |-> FALSE,
                output           |-> Force(MatMul(attention_weight, vv, WFX)),
                attention_weight |-> attention_weight,
                sqrt_arg         |-> kk.shape[PyAxis(1, Rank(kk))]]

\* scaled_dot_product that answers mismatched shapes with an output of zeros
\* instead of raising
ScaledDotProductLenient(qq, kk, vv, mm) ==
    IF ~MatMulOk(qq, Transpose(kk))
       \/ kk.shape[Rank(kk) - 1] # vv.shape[Rank(vv) - 1]
    THEN [err              |-> FALSE,
          output           |-> Tensor(Front(qq.shape) \o <<vv.shape[Rank(vv)]>>,
                                      LAMBDA s : 0),
          attention_weight |-> NoTensor,
          sqrt_arg         |-> 0]
    ELSE
      LET score_matrix     == Force(MatMul(qq, Transpose(kk), FX))
          scaled_score     == Force(DivSqrt(score_matrix, kk.shape[PyAxis(1, Rank(kk))]))
          attention_weight == Force(Softmax(scaled_score, PyAxis(1, Rank(scaled_score))))
      IN  [err              |-> FALSE,
           output           |-> Force(MatMul(attention_weight, vv, WFX)),
           attention_weight |-> attention_weight,
           sqrt_arg         |-> kk.shape[PyAxis(1, Rank(kk))]]

\* Lab12_Transformers2.ipynb, scaled_dot_product(q, k, v, mask=None)
ScaledDotProduct(qq, kk, vv, mm) ==
    IF ~MatMulOk(qq, Transpose(kk)) THEN SdpError
    ELSE
      LET score_matrix     == Force(MatMul(qq, Transpose(kk), FX))
          scaled_score     == Force(DivSqrt(score_matrix, kk.shape[PyAxis(1, Rank(kk))]))
          attention_weight == Force(Softmax(scaled_score, PyAxis(1, Rank(scaled_score))))
      IN  IF ~MatMulOk(attention_weight, vv) THEN SdpError
          ELSE [err              |-> FALSE,
                output           |-> Force(MatMul(attention_weight, vv, WFX)),
                attention_weight |-> attention_weight,
                sqrt_arg         |-> kk.shape[PyAxis(1, Rank(kk))]]

\* the assignment's scaled_dot_product with softmax(scaled_score, dim=0)
AssignmentSdpSoftmaxDim0(qq, kk, vv, mm) ==
    LET score_matrix     == Force(MatMul(qq, Transpose(kk), FX))
        scaled_score     == Force(DivSqrt(score_matrix, kk.shape[PyAxis(1, Rank(kk))]))
        attention_weight == Softmax(scaled_score, PyAxis(0, Rank(scaled_score)))
    IN  Force(MatMul(attention_weight, vv, WFX))

\* the assignment's scaled_dot_product dividing by sqrt(k.shape[-1])
AssignmentSdpSqrtLastDim(qq, kk, vv, mm) ==
    LET score_matrix     == Force(MatMul(qq, Transpose(kk), FX))
        scaled_score     == Force(DivSqrt(score_matrix, kk.shape[Rank(kk)]))
        attention_weight == Force(Softmax(scaled_score, PyAxis(1, Rank(scaled_score))))
    IN  Force(MatMul(attention_weight, vv, WFX))

\* Assignment1_6595203.ipynb, scaled_dot_product(q, k, v, mask=None): it
\* returns the output only
AssignmentScaledDotProduct(qq, kk, vv, mm) ==
    LET score_matrix     == Force(MatMul(qq, Transpose(kk), FX))
        scaled_score     == Force(DivSqrt(score_matrix, kk.shape[PyAxis(1, Rank(kk))]))
        attention_weight == Force(Softmax(scaled_score, PyAxis(1, Rank(scaled_score))))
    IN  Force(MatMul(attention_weight, vv, WFX))

(***************************************************************************)
(* Inputs: tensors of a given shape whose contents are drawn by a seed     *)
(* (the notebooks draw them with torch.randn), and masks.                  *)
(***************************************************************************)
Seeds == 0..MaxSeed

\* a value among -2, -1, 0, 1, 2
Pat(seed, s) ==
    (((SeqSum([i \in 1..Len(s) |-> (seed + i) * (s[i] + seed)]) + seed) % 5) - 2) * FX

Fill(shape, seed) == Tensor(shape, LAMBDA s : Pat(seed, s))

\* the leading axes of the inputs: none (2-D), batch, or batch and head
LeadShapes ==
    {<<>>} \cup {<<b>> : b \in 1..MaxB}
           \cup {<<b, h>> : b \in 1..MaxB, h \in 1..MaxH}

\* a mask keeps (1) or excludes (0) each (query, key) pair
PadMask(t, c)  == Tensor(<<t, t>>, LAMBDA s : IF s[2] = c THEN 0 ELSE 1)
CausalMask(t)  == Tensor(<<t, t>>, LAMBDA s : IF s[2] > s[1] THEN 0 ELSE 1)

\* the masks in which every query keeps at least one key
Masks(t) ==
    {CausalMask(t)} \cup (IF t >= 2 THEN {PadMask(t, c) : c \in 1..t} ELSE {})

Excluded(mm, s) ==
    /\ mm # NoMask
    /\ mm.data[<<s[Len(s) - 1], s[Len(s)]>>] = 0

(***************************************************************************)
(* The worked example of the assignment notebook (values rounded to 1/FX). *)
(***************************************************************************)
FromRows(rows) ==
    Tensor(<<Len(rows), Len(rows[1])>>, LAMBDA s : rows[s[1]][s[2]])

ExampleQ == FromRows(<< <<-4683, -460, 1929, 1099>>,
                        <<1813, -176, -7465, 4692>>,
                        <<-11091, 7350, 4165, -4624>> >>)
ExampleK == FromRows(<< <<52203, 39193, 4550, 32253>>,
                        <<61923, -44482, -35478, -68640>>,
                        <<20799, -43603, 8565, 12547>> >>)
ExampleV == FromRows(<< <<695, -211, 1988, 104>>,
                        <<985, 602, -690, -1656>>,
                        <<-795, 690, -1846, 639>> >>)

(***************************************************************************)
(* Values of the variables a specification does not use.                   *)
(***************************************************************************)
NoObject == [state |-> "none"]

SdpIdle == q = NoTensor /\ k = NoTensor /\ v = NoTensor /\ mask = NoMask
           /\ sdp = SdpError

MhaIdle == mha = NoObject /\ mha_x = NoTensor /\ mha_out = NoObject

PeIdle  == posenc = NoObject /\ pe_x = NoTensor /\ pe_out = NoObject
           /\ pe_prev = NoObject /\ params = <<>> /\ steps = 0

EncIdle == enc = NoObject /\ enc_x = NoTensor /\ enc_mask = NoMask
           /\ enc_out = NoObject /\ enc_prev = NoObject /\ enc_maps = NoObject

NetIdle == net = NoObject /\ net_out = NoObject /\ net_prev = NoObject
           /\ loop = NoObject

DataIdle == dataset = NoObject /\ item = NoObject /\ loader = NoObject
            /\ val = NoObject

PostIdle == predicted_text = <<>> /\ results = <<>> /\ broken_count = 0
            /\ new_results = <<>> /\ post = NoObject

ColIdle  == features = <<>> /\ batch = NoObject

AuxIdle  == DataIdle /\ PostIdle /\ ColIdle

(***************************************************************************)
(* Calls of scaled_dot_product: the arguments are drawn first, then the    *)
(* function is applied to them.                                            *)
(***************************************************************************)
InitSdp ==
    /\ op = "start"
    /\ \/ \E lead \in LeadShapes, t \in 1..MaxT, d \in 1..MaxD, dv \in 1..MaxD,
             sq \in Seeds, sk \in Seeds, sv \in Seeds :
            /\ q = Fill(lead \o <<t, d>>, sq)
            /\ k = Fill(lead \o <<t, d>>, sk)
            /\ v = Fill(lead \o <<t, dv>>, sv)
            /\ mask \in {NoMask} \cup Masks(t)
       \/ q = ExampleQ /\ k = ExampleK /\ v = ExampleV /\ mask = NoMask
    /\ sdp = SdpError
    /\ MhaIdle
    /\ PeIdle
    /\ EncIdle
    /\ NetIdle
    /\ rng = 0
    /\ AuxIdle

\* output, attention_weight = scaled_dot_product(q, k, v, mask)
ScaledDotProductCall ==
    /\ op = "start"
    /\ op' = "scaled_dot_product"
    /\ sdp' = ScaledDotProduct(q, k, v, mask)
    /\ UNCHANGED <<auxVars, q, k, v, mask, mhaVars, peVars, encVars, netVars, rng>>

\* the last cell of the assignment notebook: scaled_dot_product(q, k, v)
WorkedExample ==
    /\ op = "start"
    /\ q = ExampleQ /\ k = ExampleK /\ v = ExampleV /\ mask = NoMask
    /\ op' = "worked_example"
    /\ sdp' = [err              |-> FALSE,
               output           |-> AssignmentScaledDotProduct(q, k, v, mask),
               attention_weight |-> NoTensor,
               sqrt_arg         |-> 0]
    /\ UNCHANGED <<auxVars, q, k, v, mask, mhaVars, peVars, encVars, netVars, rng>>

NextSdp == ScaledDotProductCall \/ WorkedExample

SpecSdp == InitSdp /\ [][NextSdp]_vars

(***************************************************************************)
(* MultiheadAttention.                                                     *)
(***************************************************************************)
\* nn.init.xavier_uniform_: small weights drawn by a seed
Xavier(shape, seed) == Tensor(shape, LAMBDA s : Pat(seed, s) \div 4)

\* bias.data.fill_(0)
Zeros(shape) == Tensor(shape, LAMBDA s : 0)

\* the pending call MultiheadAttention(input_dim, embed_dim, num_heads)
MhaArgs(input_dim, embed_dim, num_heads, seed) ==
    [state |-> "args", input_dim |-> input_dim, embed_dim |-> embed_dim,
     num_heads |-> num_heads, head_dim |-> 0, seed |-> seed,
     qkv_w |-> NoTensor, qkv_b |-> NoTensor, o_w |-> NoTensor, o_b |-> NoTensor]

\* __init__ without the assert statement
MhaConstructUnchecked(a) ==
    [a EXCEPT !.state    = "constructed",
              !.head_dim = a.embed_dim \div a.num_heads,
              !.qkv_w    = Xavier(<<3 * a.embed_dim, a.input_dim>>, a.seed),
              !.qkv_b    = Zeros(<<3 * a.embed_dim>>),
              !.o_w      = Xavier(<<a.embed_dim, a.embed_dim>>, a.seed + 1),
              !.o_b      = Zeros(<<a.embed_dim>>)]

\* MultiheadAttention.__init__ and _reset_parameters: the object, or the
\* arguments in state "error" when the assert fails
MhaConstruct(a) ==
    IF a.embed_dim % a.num_heads # 0
    THEN [a EXCEPT !.state = "error"]
    ELSE [a EXCEPT !.state    = "constructed",
                   !.head_dim = a.embed_dim \div a.num_heads,
                   !.qkv_w    = Xavier(<<3 * a.embed_dim, a.input_dim>>, a.seed),
                   !.qkv_b    = Zeros(<<3 * a.embed_dim>>),
                   !.o_w      = Xavier(<<a.embed_dim, a.embed_dim>>, a.seed + 1),
                   !.o_b      = Zeros(<<a.embed_dim>>)]

MhaError == [err |-> TRUE, o |-> NoTensor, attention |-> NoTensor,
             q |-> NoTensor, k |-> NoTensor, v |-> NoTensor,
             values |-> NoTensor, sqrt_arg |-> 0,
             qkv |-> NoTensor, concat |-> NoTensor]

\* forward that reshapes the values without permuting the head axis back
MhaForwardNoPermuteBack(self, x, mm) ==
    IF Rank(x) # 3 \/ ~LinearOk(x, self.qkv_w) THEN MhaError
    ELSE
      LET batch_size == x.shape[1]
          seq_length == x.shape[2]
          embed_dim  == x.shape[3]
          qkv0 == Force(Linear(x, self.qkv_w, self.qkv_b))
          qkv1 == Reshape(qkv0, <<batch_size, seq_length, self.num_heads,
                                  3 * self.head_dim>>)
          qkv2 == Permute(qkv1, <<0, 2, 1, 3>>)
          qq   == Force(Chunk(qkv2, 3, 1))
          kk   == Force(Chunk(qkv2, 3, 2))
          vv   == Force(Chunk(qkv2, 3, 3))
          res  == ScaledDotProduct(qq, kk, vv, mm)
          values1 == res.output
          values2 == Force(Reshape(values1, <<batch_size, seq_length, embed_dim>>))
      IN  IF res.err THEN MhaError
          ELSE IF ~ReshapeOk(values1, <<batch_size, seq_length, embed_dim>>)
               THEN MhaError
          ELSE IF ~LinearOk(values2, self.o_w) THEN MhaError
          ELSE [err       |-> FALSE,
                o         |-> Linear(values2, self.o_w, self.o_b),
                attention |-> res.attention_weight,
                q |-> qq, k |-> kk, v |-> vv,
                values    |-> res.output,
                sqrt_arg  |-> res.sqrt_arg,
                qkv       |-> qkv0,
                concat    |-> values2]

\* MultiheadAttention.forward(x, mask, return_attention=True); the result
\* also records q, k, v and the per-head values the code computes on the way
MhaForward(self, x, mm) ==
    IF Rank(x) # 3 \/ ~LinearOk(x, self.qkv_w) THEN MhaError
    ELSE
      LET batch_size == x.shape[1]
          seq_length == x.shape[2]
          embed_dim  == x.shape[3]
          qkv0 == Force(Linear(x, self.qkv_w, self.qkv_b))
          qkv1 == Reshape(qkv0, <<batch_size, seq_length, self.num_heads,
                                  3 * self.head_dim>>)
          qkv2 == Permute(qkv1, <<0, 2, 1, 3>>)
          qq   == Force(Chunk(qkv2, 3, 1))
          kk   == Force(Chunk(qkv2, 3, 2))
          vv   == Force(Chunk(qkv2, 3, 3))
          res  == ScaledDotProduct(qq, kk, vv, mm)
          values1 == Permute(res.output, <<0, 2, 1, 3>>)
          values2 == Force(Reshape(values1, <<batch_size, seq_length, embed_dim>>))
      IN  IF res.err THEN MhaError
          ELSE IF ~ReshapeOk(values1, <<batch_size, seq_length, embed_dim>>)
               THEN MhaError
          ELSE IF ~LinearOk(values2, self.o_w) THEN MhaError
          ELSE [err       |-> FALSE,
                o         |-> Linear(values2, self.o_w, self.o_b),
                attention |-> res.attention_weight,
                q |-> qq, k |-> kk, v |-> vv,
                values    |-> res.output,
                sqrt_arg  |-> res.sqrt_arg,
                qkv       |-> qkv0,
                concat    |-> values2]

\* the constructor arguments and the input of forward are drawn first
InitMha ==
    /\ op = "start"
    /\ \E input_dim \in 1..MaxIn, embed_dim \in 1..MaxE, num_heads \in 1..MaxH,
          seed \in Seeds :
         mha = MhaArgs(input_dim, embed_dim, num_heads, seed)
    /\ \E b \in 1..MaxB, t \in 1..MaxT, seed \in Seeds :
         mha_x = Fill(<<b, t, mha.input_dim>>, seed)
    /\ mha_out = MhaError
    /\ SdpIdle
    /\ PeIdle
    /\ EncIdle
    /\ NetIdle
    /\ rng = 0
    /\ AuxIdle

\* attn = MultiheadAttention(input_dim, embed_dim, num_heads)
MhaInitCall ==
    /\ op = "start"
    /\ mha.state = "args"
    /\ op' = "mha_init"
    /\ mha' = MhaConstruct(mha)
    /\ UNCHANGED <<auxVars, mha_x, mha_out, sdpVars, peVars, encVars, netVars, rng>>

\* o, attention = attn(x, return_attention=True)
MhaForwardCall ==
    /\ op = "mha_init"
    /\ mha.state = "constructed"
    /\ op' = "mha_forward"
    /\ mha_out' = MhaForward(mha, mha_x, NoMask)
    /\ UNCHANGED <<auxVars, mha, mha_x, sdpVars, peVars, encVars, netVars, rng>>

NextMha == MhaInitCall \/ MhaForwardCall

SpecMha == InitMha /\ [][NextMha]_vars

(***************************************************************************)
(* PositionalEncoding.                                                     *)
(***************************************************************************)
\* sum of the Taylor series of sin or cos from term number n on
RECURSIVE TrigSeries(_, _, _)
TrigSeries(x, term, n) ==
    IF term = 0 \/ n > 40 THEN 0
    ELSE term + TrigSeries(x, -((((term * x) \div FX) * x) \div FX) \div (n * (n + 1)),
                           n + 2)

\* torch.sin and torch.cos of x >= 0, in units of 1/FX
SinFx(x) == TrigSeries(x, x, 2)
CosFx(x) == TrigSeries(x, FX, 1)

\* math.log(10000.0) in units of 1/FX
Log10000 == (9210 * FX) \div 1000

\* div_term[i] = exp(2 i * (-log(10000) / d_model)), i counted from 0
DivTerm(i, d_model) == ExpFx(-((2 * i * Log10000) \div d_model))

\* the table with div_term indexed by the column instead of the column pair
PeTableColumnFrequency(max_len, d_model) ==
    Tensor(<<1, max_len, d_model>>,
           LAMBDA s :
             LET angle == ((s[2] - 1) * FX
                              * ExpFx(-(((s[3] - 1) * Log10000) \div d_model))) \div FX
             IN  IF (s[3] - 1) % 2 = 0 THEN SinFx(angle) ELSE CosFx(angle))

\* the table built by __init__: columns 0::2 hold the sines, columns 1::2 the
\* cosines (index c is column c - 1)
PeTable(max_len, d_model) ==
    Tensor(<<1, max_len, d_model>>,
           LAMBDA s :
             LET angle == ((s[2] - 1) * FX * DivTerm((s[3] - 1) \div 2, d_model)) \div FX
             IN  IF (s[3] - 1) % 2 = 0 THEN SinFx(angle) ELSE CosFx(angle))

\* the pending call PositionalEncoding(d_model, max_len)
PeArgs(d_model, max_len) ==
    [state |-> "args", d_model |-> d_model, max_len |-> max_len, pe |-> NoTensor]

\* PositionalEncoding.__init__: pe[:, 1::2] has d_model // 2 columns and is
\* assigned (d_model + 1) // 2 columns, which fails unless they are equal or
\* the right-hand side has a single column to broadcast
PeConstruct(a) ==
    IF (a.d_model + 1) \div 2 # a.d_model \div 2 /\ (a.d_model + 1) \div 2 # 1
    THEN [a EXCEPT !.state = "error"]
    ELSE [a EXCEPT !.state = "constructed",
                   !.pe    = PeTable(a.max_len, a.d_model)]

\* t[:, :n]
SliceAxis1(t, n) ==
    Tensor(Put(t.shape, 2, IF n < t.shape[2] THEN n ELSE t.shape[2]),
           LAMBDA s : t.data[s])

\* a + b is defined when on every axis the sizes are equal or one of them is 1
BroadcastOk(a, b) ==
    /\ Rank(a) = Rank(b)
    /\ \A i \in 1..Rank(a) :
          a.shape[i] = b.shape[i] \/ a.shape[i] = 1 \/ b.shape[i] = 1

\* a + b with broadcasting
AddBroadcast(a, b) ==
    LET pick(s, t) == [i \in 1..Rank(t) |-> IF t.shape[i] = 1 THEN 1 ELSE s[i]]
    IN  Tensor([i \in 1..Rank(a) |->
                   IF a.shape[i] = 1 THEN b.shape[i] ELSE a.shape[i]],
               LAMBDA s : a.data[pick(s, a)] + b.data[pick(s, b)])

NoCall == [valid |-> FALSE, err |-> FALSE, arg |-> NoTensor, out |-> NoTensor,
           x_after |-> NoTensor]

\* PositionalEncoding.forward(x): the result, and the caller's tensor after
\* the call (x = x + ... binds a new tensor, the argument is not written)
PeForward(self, x) ==
    LET sliced == SliceAxis1(self.pe, x.shape[2])
    IN  IF ~BroadcastOk(x, sliced)
        THEN [valid |-> TRUE, err |-> TRUE, arg |-> x, out |-> NoTensor,
              x_after |-> x]
        ELSE [valid |-> TRUE, err |-> FALSE, arg |-> x,
              out |-> AddBroadcast(x, sliced),
              x_after |-> x]

\* the tensors of the model the optimizer would update if pe were registered
\* as a parameter
ParameterNamesWithPe == {"input_net.weight", "output_net.weight", "pe"}

\* model.parameters(): the tensors registered as nn.Parameter; pe is
\* registered with register_buffer and is not among them
ParameterNames == {"input_net.weight", "output_net.weight"}

\* optimizer.step(): every tensor of model.parameters() gets a new value
\* (drawn by a seed), every other tensor is left alone
OptimizerStep(names, seed) ==
    /\ params' = [n \in DOMAIN params |->
                    IF n \in names THEN (params[n] + seed) % (MaxSeed + 1)
                    ELSE params[n]]
    /\ posenc' = IF "pe" \in names
                 THEN [posenc EXCEPT !.pe =
                          Tensor(posenc.pe.shape,
                                 LAMBDA s : posenc.pe.data[s] + seed)]
                 ELSE posenc

\* the constructor arguments and the shape of the inputs are drawn first
InitPe ==
    /\ op = "start"
    /\ \E d_model \in 1..MaxE, max_len \in 1..MaxLen :
         posenc = PeArgs(d_model, max_len)
    /\ \E b \in 1..MaxB, t \in 1..(MaxT + 1) :
         pe_x = Fill(<<b, t, posenc.d_model>>, 0)
    /\ pe_out = NoCall
    /\ pe_prev = NoCall
    /\ params = [n \in {"input_net.weight", "output_net.weight"} |-> 0]
    /\ steps = 0
    /\ SdpIdle
    /\ MhaIdle
    /\ EncIdle
    /\ NetIdle
    /\ rng = 0
    /\ AuxIdle

\* self.positional_encoding = PositionalEncoding(d_model, max_len)
PeInitCall ==
    /\ op = "start"
    /\ posenc.state = "args"
    /\ op' = "pe_init"
    /\ posenc' = PeConstruct(posenc)
    /\ UNCHANGED <<auxVars, pe_x, pe_out, pe_prev, params, steps, sdpVars, mhaVars,
                 encVars, netVars, rng>>

\* x = self.positional_encoding(x) on a batch of the shape drawn at the start
PeForwardCall ==
    /\ op # "start"
    /\ posenc.state = "constructed"
    /\ \E seed \in Seeds :
         LET res == PeForward(posenc, Fill(pe_x.shape, seed))
         IN  /\ pe_out' = res
             /\ pe_x' = res.x_after
    /\ pe_prev' = pe_out
    /\ op' = "pe_forward"
    /\ UNCHANGED <<auxVars, posenc, params, steps, sdpVars, mhaVars,
                 encVars, netVars, rng>>

\* optimizer.step() of the training loop
OptimizerStepCall ==
    /\ op # "start"
    /\ posenc.state = "constructed"
    /\ steps < MaxSteps
    /\ \E seed \in 1..MaxSeed : OptimizerStep(ParameterNames, seed)
    /\ steps' = steps + 1
    /\ op' = "optimizer_step"
    /\ UNCHANGED <<auxVars, pe_x, pe_out, pe_prev, sdpVars, mhaVars,
                 encVars, netVars, rng>>

NextPe == PeInitCall \/ PeForwardCall \/ OptimizerStepCall

SpecPe == InitPe /\ [][NextPe]_vars

(***************************************************************************)
(* Properties of scaled_dot_product.                                       *)
(***************************************************************************)
Called == op = "scaled_dot_product" /\ ~sdp.err

\* the sum of the weights of the query at index s over the key (last) axis
RowSum(w, s) ==
    SeqSum([j \in 1..w.shape[Rank(w)] |-> w.data[Put(s, Rank(w), j)]])

\* C1: without a mask, for inputs of every rank, all attention weights are
\* >= 0 and the weights of every query sum to 1 (within 1e-5) over the keys.
C1_RowsSumToOne ==
    (Called /\ mask = NoMask) =>
        \A s \in Idx(sdp.attention_weight.shape) :
            /\ sdp.attention_weight.data[s] >= 0
            /\ Abs(RowSum(sdp.attention_weight, s) - WFX) <= WFX \div 100000

\* C2: with a mask that keeps a key for every query, every excluded
\* (query, key) position gets an attention weight below 1e-6.
C2_MaskedWeightsVanish ==
    (Called /\ mask # NoMask) =>
        \A s \in Idx(sdp.attention_weight.shape) :
            Excluded(mask, s) => sdp.attention_weight.data[s] < WFX \div 1000000

\* C3: for inputs of every rank the scores are divided by sqrt(d_k), d_k the
\* size of the last axis of k.
C3_DivisorIsSqrtDk ==
    Called => sdp.sqrt_arg = k.shape[Rank(k)]

\* The attention formula for matrices, written out row by row:
\* weights = softmax over each row of q k^T / sqrt(d_k), output = weights v.
RefScore(qq, kk, i, j) ==
    SeqSum([m \in 1..qq.shape[2] |->
        MulDiv(qq.data[<<i, m>>], kk.data[<<j, m>>], FX)])

RefScaled(qq, kk, i, j) == (RefScore(qq, kk, i, j) * FX) \div SqrtFx(qq.shape[2])

RefRowMax(qq, kk, i) == SeqMax([j \in 1..kk.shape[1] |-> RefScaled(qq, kk, i, j)])

RefExp(qq, kk, i, j) == ExpFx(RefScaled(qq, kk, i, j) - RefRowMax(qq, kk, i))

RefWeight(qq, kk, i, j) ==
    (RefExp(qq, kk, i, j) * WFX)
        \div SeqSum([jj \in 1..kk.shape[1] |-> RefExp(qq, kk, i, jj)])

RefOutput(qq, kk, vv, i, c) ==
    SeqSum([j \in 1..kk.shape[1] |->
        MulDiv(RefWeight(qq, kk, i, j), vv.data[<<j, c>>], WFX)])

\* C4: for 2-D q, k [T, d_k] and v [T, d_v] the returned weights are the
\* row-wise softmax of q k^T / sqrt(d_k) and the output is weights v.
C4_MatchesFormula ==
    (Called /\ mask = NoMask /\ Rank(q) = 2) =>
        /\ sdp.attention_weight.shape = <<q.shape[1], k.shape[1]>>
        /\ sdp.output.shape = <<q.shape[1], v.shape[2]>>
        /\ \A i \in 1..q.shape[1], j \in 1..k.shape[1] :
              sdp.attention_weight.data[<<i, j>>] = RefWeight(q, k, i, j)
        /\ \A i \in 1..q.shape[1], c \in 1..v.shape[2] :
              sdp.output.data[<<i, c>>] = RefOutput(q, k, v, i, c)

\* a 2-D call with d_k = 2 (sqrt(d_k) is not 1), two keys, unequal weights
C4_Witness ==
    /\ Called /\ mask = NoMask /\ Rank(q) = 2
    /\ q.shape = <<2, 2>>
    /\ sdp.attention_weight.data[<<1, 1>>] # sdp.attention_weight.data[<<1, 2>>]
    /\ sdp.attention_weight.data[<<1, 1>>] > 0
    /\ sdp.attention_weight.data[<<1, 2>>] > 0

\* row 1 (0-based) of the output recorded in the assignment notebook
ExpectedRow1 == <<695, -211, 1988, 104>>

\* the key with the highest raw score for query i
BestKey(qq, kk, i) ==
    CHOOSE j \in 1..kk.shape[1] :
        \A jj \in 1..kk.shape[1] : RefScore(qq, kk, i, j) >= RefScore(qq, kk, i, jj)

\* C5: on the worked example row 1 of the output is [0.695, -0.211, 1.988,
\* 0.104] within 1e-3, and every output row is the value row of the query's
\* highest-scoring key.
C5_WorkedExample ==
    op = "worked_example" =>
        /\ sdp.output.shape = <<3, 4>>
        /\ \A c \in 1..4 : Abs(sdp.output.data[<<2, c>>] - ExpectedRow1[c]) * 1000 <= FX
        /\ \A i \in 1..3, c \in 1..4 :
              Abs(sdp.output.data[<<i, c>>] - v.data[<<BestKey(q, k, i), c>>]) * 1000 <= FX

C5_Witness ==
    /\ op = "worked_example"
    /\ q = ExampleQ /\ k = ExampleK /\ v = ExampleV
    /\ sdp.output.shape = <<3, 4>>

(***************************************************************************)
(* Properties of MultiheadAttention.                                       *)
(***************************************************************************)
\* C6: the constructor fails when embed_dim % num_heads # 0, so no forward
\* call ever runs on such an object; otherwise it succeeds and
\* head_dim * num_heads = embed_dim.
C6_ConstructorChecksDivisibility ==
    op \in {"mha_init", "mha_forward"} =>
        IF mha.embed_dim % mha.num_heads # 0
        THEN mha.state = "error" /\ op # "mha_forward" /\ mha_out = MhaError
        ELSE /\ mha.state = "constructed"
             /\ mha.head_dim * mha.num_heads = mha.embed_dim

\* the constructor has failed on embed_dim = 3, num_heads = 2
C6_Witness ==
    /\ op = "mha_init"
    /\ mha.state = "error"
    /\ mha.embed_dim = 3 /\ mha.num_heads = 2

\* C7: for x of shape [B, T, input_dim], forward returns a tensor of shape
\* [B, T, embed_dim], whatever input_dim, embed_dim and the head count.
C7_ForwardShape ==
    op = "mha_forward" =>
        /\ ~mha_out.err
        /\ mha_out.o.shape = <<mha_x.shape[1], mha_x.shape[2], mha.embed_dim>>

\* t with one added to every entry of head g (axis 1 of [B, H, T, d])
BumpHead(t, g) ==
    Tensor(t.shape, LAMBDA s : IF s[2] = g THEN t.data[s] + FX ELSE t.data[s])

\* C8: the weights and the output of head h depend on head h's q, k, v only:
\* changing the q, k, v of another head g leaves them unchanged.
C8_HeadsIndependent ==
    (op = "mha_forward" /\ ~mha_out.err) =>
        \A h \in 1..mha.num_heads, g \in 1..mha.num_heads :
            g # h =>
                LET alt == ScaledDotProduct(BumpHead(mha_out.q, g),
                                            BumpHead(mha_out.k, g),
                                            BumpHead(mha_out.v, g), NoMask)
                IN  /\ \A s \in Idx(mha_out.attention.shape) :
                          s[2] = h =>
                            alt.attention_weight.data[s] = mha_out.attention.data[s]
                    /\ \A s \in Idx(mha_out.values.shape) :
                          s[2] = h => alt.output.data[s] = mha_out.values.data[s]

(***************************************************************************)
(* Properties of PositionalEncoding.                                       *)
(***************************************************************************)
\* C9: for every max_len >= 1, forward raises an error on every input whose
\* sequence length T exceeds max_len, and for T <= max_len it returns a
\* tensor of the shape of x.
C9_LengthBound ==
    op = "pe_forward" =>
        IF pe_out.arg.shape[2] > posenc.max_len
        THEN pe_out.err
        ELSE ~pe_out.err /\ pe_out.out.shape = pe_out.arg.shape

\* C10: after construction pe keeps its constructed value across forward
\* calls and optimizer steps, forward leaves the caller's tensor as it was,
\* and two forward calls with identical input return identical results.
C10_PeImmutable ==
    posenc.state = "constructed" =>
        /\ posenc.pe = PeTable(posenc.max_len, posenc.d_model)
        /\ pe_out.valid => pe_x = pe_out.arg
        /\ (pe_out.valid /\ pe_prev.valid /\ pe_prev.arg = pe_out.arg) =>
              (pe_prev.err = pe_out.err /\ pe_prev.out = pe_out.out)

\* two successful forward calls on the same input with optimizer steps taken
C10_Witness ==
    /\ op = "pe_forward"
    /\ steps = MaxSteps
    /\ pe_out.valid /\ pe_prev.valid
    /\ ~pe_out.err
    /\ pe_prev.arg = pe_out.arg
    /\ posenc.max_len >= 2
    /\ pe_out.out # pe_out.arg

\* r ^ n, or cap + 1 when it exceeds cap
RECURSIVE PowCap(_, _, _)
PowCap(r, n, cap) ==
    IF n = 0 THEN 1
    ELSE LET p == PowCap(r, n - 1, cap)
         IN  IF p > cap \div r THEN cap + 1 ELSE p * r

\* the largest r in lo..hi with r ^ n <= target (bisection)
RECURSIVE RootSearch(_, _, _, _)
RootSearch(lo, hi, n, target) ==
    IF lo >= hi THEN lo
    ELSE LET mid == (lo + hi + 1) \div 2
         IN  IF PowCap(mid, n, target) <= target
             THEN RootSearch(mid, hi, n, target)
             ELSE RootSearch(lo, mid - 1, n, target)

\* 10000 ^ (2 i / d_model), rounded down
RefPower(i, d_model) == RootSearch(1, 10000, d_model, PowCap(10000, 2 * i, 100000000))

\* pos / 10000 ^ (2 i / d_model) in units of 1/FX
RefAngle(pos, i, d_model) == (pos * FX) \div RefPower(i, d_model)

\* C11: PE[pos, 2i] = sin(pos / 10000^(2i/d_model)) and PE[pos, 2i+1] =
\* cos(pos / 10000^(2i/d_model)) (within 2e-3; exactly 0 and 1 at pos = 0),
\* and forward returns x[b, pos, c] + PE[pos, c] at every index.
C11_PeFormula ==
    posenc.state = "constructed" =>
        /\ \A pos \in 0..(posenc.max_len - 1), i \in 0..posenc.d_model :
              2 * i + 1 < posenc.d_model =>
                /\ Abs(posenc.pe.data[<<1, pos + 1, 2 * i + 1>>]
                       - SinFx(RefAngle(pos, i, posenc.d_model))) * 1000 <= 2 * FX
                /\ Abs(posenc.pe.data[<<1, pos + 1, 2 * i + 2>>]
                       - CosFx(RefAngle(pos, i, posenc.d_model))) * 1000 <= 2 * FX
                /\ pos = 0 => /\ posenc.pe.data[<<1, 1, 2 * i + 1>>] = 0
                              /\ posenc.pe.data[<<1, 1, 2 * i + 2>>] = FX
        /\ (pe_out.valid /\ ~pe_out.err
              /\ pe_out.arg.shape[2] <= posenc.max_len) =>
              \A s \in Idx(pe_out.arg.shape) :
                  pe_out.out.data[s]
                      = pe_out.arg.data[s] + posenc.pe.data[<<1, s[2], s[3]>>]

\* a forward call on two or more positions with d_model = 4 (two frequencies)
C11_Witness ==
    /\ op = "pe_forward"
    /\ posenc.d_model = 4 /\ posenc.max_len >= 3
    /\ ~pe_out.err
    /\ pe_out.arg.shape[2] >= 2
    /\ posenc.pe.data[<<1, 3, 3>>] > 0
    /\ posenc.pe.data[<<1, 3, 3>>] < posenc.pe.data[<<1, 3, 1>>]

(***************************************************************************)
(* EncoderBlock and TransformerEncoder.                                    *)
(***************************************************************************)
MaxLayers == 2   \* num_layers 0..MaxLayers
MaxFf     == 2   \* dim_feedforward 1..MaxFf

\* default initialisation of nn.Linear (kaiming_uniform_ weight, uniform bias)
KaimingUniform(shape, seed) == Tensor(shape, LAMBDA s : Pat(seed, s) \div 2)

\* eps of nn.LayerNorm (1e-5) in units of 1/WFX
LayerNormEps == WFX \div 100000

\* nn.LayerNorm(input_dim) with its initial weight 1 and bias 0: every vector
\* along the last axis is shifted to mean 0 and divided by sqrt(var + eps)
LayerNorm(x) ==
    LET r    == Rank(x)
        d    == x.shape[r]
        xs   == Force(x)
        mean == Force(Tensor(Front(x.shape),
                    LAMBDA s : SeqSum([c \in 1..d |-> xs.data[s \o <<c>>]]) \div d))
        std  == Force(Tensor(Front(x.shape),
                    LAMBDA s :
                      LET var == SeqSum([c \in 1..d |->
                                     (xs.data[s \o <<c>>] - mean.data[s])
                                         * (xs.data[s \o <<c>>] - mean.data[s])]) \div d
                      IN  Newton(var + LayerNormEps, var + LayerNormEps)))
    IN  Force(Tensor(x.shape,
                     LAMBDA s : ((xs.data[s] - mean.data[Front(s)]) * FX)
                                    \div std.data[Front(s)]))

\* nn.ReLU
Relu(x) == Force(Tensor(x.shape, LAMBDA s : IF x.data[s] > 0 THEN x.data[s] ELSE 0))

\* nn.Dropout(p): the identity in evaluation mode (and for p = 0); in training
\* mode the entries the random draw (seed) selects are zeroed and the others
\* are scaled by 1 / (1 - p)
Dropout(x, p, training, seed) ==
    IF ~training \/ p = 0 THEN x
    ELSE Force(Tensor(x.shape,
                      LAMBDA s : IF p < FX /\ Pat(seed, s) >= 0
                                 THEN (x.data[s] * FX) \div (FX - p)
                                 ELSE 0))

\* the pending call EncoderBlock(input_dim, num_heads, dim_feedforward, dropout)
BlockArgs(input_dim, num_heads, dim_feedforward, dropout, seed) ==
    [input_dim |-> input_dim, num_heads |-> num_heads,
     dim_feedforward |-> dim_feedforward, dropout |-> dropout, seed |-> seed]

\* EncoderBlock.__init__
EncoderBlockConstruct(a) ==
    LET attn == MhaConstruct(MhaArgs(a.input_dim, a.input_dim, a.num_heads, a.seed))
    IN  [state     |-> attn.state,
         input_dim |-> a.input_dim,
         dim_feedforward |-> a.dim_feedforward,
         dropout   |-> a.dropout,
         self_attn |-> attn,
         w1 |-> KaimingUniform(<<a.dim_feedforward, a.input_dim>>, a.seed + 2),
         b1 |-> KaimingUniform(<<a.dim_feedforward>>, a.seed + 3),
         w2 |-> KaimingUniform(<<a.input_dim, a.dim_feedforward>>, a.seed + 4),
         b2 |-> KaimingUniform(<<a.input_dim>>, a.seed + 5)]

\* linear_net without its second Linear layer
LinearNetHidden(self, x, training, seed) ==
    LET h1 == Force(Linear(x, self.w1, self.b1))
        h2 == Dropout(h1, self.dropout, training, seed)
    IN  Relu(h2)

\* linear_net without its activation
LinearNetNoRelu(self, x, training, seed) ==
    LET h1 == Force(Linear(x, self.w1, self.b1))
        h2 == Dropout(h1, self.dropout, training, seed)
    IN  Force(Linear(h2, self.w2, self.b2))

\* self.linear_net(x): Linear, Dropout, ReLU, Linear
LinearNet(self, x, training, seed) ==
    LET h1 == Force(Linear(x, self.w1, self.b1))
        h2 == Dropout(h1, self.dropout, training, seed)
        h3 == Relu(h2)
    IN  Force(Linear(h3, self.w2, self.b2))

\* what a block call that raised leaves behind
BlockError(x, mm, seed) ==
    [err |-> TRUE, x |-> x, mask |-> mm, seed |-> seed, attn_out |-> NoTensor,
     drop1 |-> NoTensor, x1 |-> NoTensor, linear_out |-> NoTensor,
     drop2 |-> NoTensor, out |-> NoTensor]

\* the block with the second residual taken from the block's input
EncoderBlockForwardResidualFromInput(self, x, mm, training, seed) ==
    LET attn == MhaForward(self.self_attn, x, mm)
    IN  IF attn.err THEN BlockError(x, mm, seed)
        ELSE
          LET attn_out   == Force(attn.o)
              drop1      == Dropout(attn_out, self.dropout, training, seed)
              x1         == LayerNorm(AddBroadcast(x, drop1))
              linear_out == LinearNet(self, x1, training, seed + 1)
              drop2      == Dropout(linear_out, self.dropout, training, seed + 2)
              x2         == LayerNorm(AddBroadcast(x, drop2))
          IN  [err |-> FALSE, x |-> x, mask |-> mm, seed |-> seed,
               attn_out |-> attn_out,
               drop1 |-> drop1, x1 |-> x1, linear_out |-> linear_out,
               drop2 |-> drop2, out |-> x2]

\* EncoderBlock.forward(x, mask): the result out with the values of the
\* local variables on the way (drop1, drop2 are the two self.dropout
\* results); seed is the state of the random generator at the call
EncoderBlockForward(self, x, mm, training, seed) ==
    LET Norm2(attn_out, drop1, x1, linear_out, drop2) ==
            IF ~BroadcastOk(x, drop1) \/ ~LinearOk(x1, self.w1)
               \/ ~BroadcastOk(x1, drop2)
            THEN BlockError(x, mm, seed)
            ELSE [err |-> FALSE, x |-> x, mask |-> mm, seed |-> seed,
                  attn_out |-> attn_out,
                  drop1 |-> drop1, x1 |-> x1, linear_out |-> linear_out,
                  drop2 |-> drop2, out |-> LayerNorm(AddBroadcast(x1, drop2))]
        Drop2(attn_out, drop1, x1, linear_out) ==
            Norm2(attn_out, drop1, x1, linear_out,
                  Dropout(linear_out, self.dropout, training, seed + 2))
        Net(attn_out, drop1, x1) ==
            Drop2(attn_out, drop1, x1, LinearNet(self, x1, training, seed + 1))
        Norm1(attn_out, drop1) ==
            Net(attn_out, drop1, LayerNorm(AddBroadcast(x, drop1)))
        Drop1(attn_out) ==
            Norm1(attn_out, Dropout(attn_out, self.dropout, training, seed))
        Attn(attn) ==
            IF attn.err THEN BlockError(x, mm, seed) ELSE Drop1(Force(attn.o))
    IN  Attn(MhaForward(self.self_attn, x, mm))

\* the pending call TransformerEncoder(num_layers, **block_args)
EncArgs(num_layers, a) ==
    [state |-> "args", num_layers |-> num_layers, block_args |-> a,
     training |-> TRUE, layers |-> <<>>]

\* TransformerEncoder.__init__: one EncoderBlock per layer, each with its own
\* initial weights; a failed block constructor fails the whole constructor
EncConstruct(e) ==
    LET layers == [i \in 1..e.num_layers |->
                      EncoderBlockConstruct(
                          [e.block_args EXCEPT !.seed = e.block_args.seed + i - 1])]
    IN  IF \E i \in 1..e.num_layers : layers[i].state = "error"
        THEN [e EXCEPT !.state = "error"]
        ELSE [e EXCEPT !.state = "constructed", !.layers = layers]

\* the calls layer(x, mask=mask) of the loop over layers[i..], in order; the
\* loop ends at a call that raises
RECURSIVE EncoderLoop(_, _, _, _, _, _)
EncoderLoop(layers, i, x, mm, training, seed) ==
    IF i > Len(layers) THEN <<>>
    ELSE LET Rest(call) ==
                 IF call.err THEN <<call>>
                 ELSE <<call>> \o EncoderLoop(layers, i + 1, call.out, mm,
                                              training, seed + 3)
         IN  Rest(EncoderBlockForward(layers[i], x, mm, training, seed))

NoEncCall == [valid |-> FALSE, err |-> FALSE, arg |-> NoTensor, mask |-> NoMask,
              training |-> FALSE, seed |-> 0, maps_before |-> FALSE,
              out |-> NoTensor, calls |-> <<>>]

\* the loop with every layer applied to the encoder's input
TransformerEncoderForwardSameInput(self, x, mm, seed) ==
    LET calls == [i \in 1..Len(self.layers) |->
                     EncoderBlockForward(self.layers[i], x, mm, self.training,
                                         seed + 3 * (i - 1))]
        n     == Len(calls)
    IN  [valid |-> TRUE,
         err   |-> n > 0 /\ calls[n].err,
         arg   |-> x, mask |-> mm, training |-> self.training,
         seed  |-> seed, maps_before |-> FALSE,
         out   |-> IF n = 0 THEN x ELSE calls[n].out,
         calls |-> calls]

\* TransformerEncoder.forward(x, mask): the result out and the block calls
\* made, in the order they were made
TransformerEncoderForward(self, x, mm, seed) ==
    LET Result(calls, n) ==
            [valid |-> TRUE,
             err   |-> n > 0 /\ calls[n].err,
             arg   |-> x, mask |-> mm, training |-> self.training,
             seed  |-> seed, maps_before |-> FALSE,
             out   |-> IF n = 0 THEN x ELSE calls[n].out,
             calls |-> calls]
        Count(calls) == Result(calls, Len(calls))
    IN  Count(EncoderLoop(self.layers, 1, x, mm, self.training, seed))

NoMapsCall == [valid |-> FALSE, err |-> FALSE, arg |-> NoTensor, mask |-> NoMask,
               attention_maps |-> <<>>, inputs |-> <<>>,
               x_after |-> NoTensor, self_after |-> NoObject]

\* the loop of get_attention_maps over layers[i..]: for every layer the pair
\* of the tensor x it was given and the attn_map appended for it
RECURSIVE AttentionMapsLoop(_, _, _, _, _, _)
AttentionMapsLoop(layers, i, x, mm, training, seed) ==
    IF i > Len(layers) THEN <<>>
    ELSE LET Rest(attn, call) ==
                 IF attn.err \/ call.err
                 THEN <<[err |-> TRUE, input |-> x, attn_map |-> NoTensor]>>
                 ELSE <<[err |-> FALSE, input |-> x,
                         attn_map |-> Force(attn.attention)]>>
                      \o AttentionMapsLoop(layers, i + 1, call.out, mm,
                                           training, seed + 3)
         IN  Rest(MhaForward(layers[i].self_attn, x, mm),
                  EncoderBlockForward(layers[i], x, NoMask, training, seed))

\* get_attention_maps with 'x = layer(x)' written into the caller's tensor
GetAttentionMapsWritesInput(self, x, mm, seed) ==
    LET loop_ == AttentionMapsLoop(self.layers, 1, x, mm, self.training, seed)
        n     == Len(loop_)
    IN  [valid |-> TRUE,
         err   |-> n > 0 /\ loop_[n].err,
         arg   |-> x, mask |-> mm,
         attention_maps |-> [i \in 1..n |-> loop_[i].attn_map],
         inputs         |-> [i \in 1..n |-> loop_[i].input],
         x_after    |-> IF n = 0 THEN x
                        ELSE EncoderBlockForward(self.layers[n], loop_[n].input,
                                                 NoMask, self.training, seed).out,
         self_after |-> self]

\* get_attention_maps with every layer's self_attn given the encoder's input
GetAttentionMapsSameInput(self, x, mm, seed) ==
    [valid |-> TRUE, err |-> FALSE, arg |-> x, mask |-> mm,
     attention_maps |-> [i \in 1..Len(self.layers) |->
                            MhaForward(self.layers[i].self_attn, x, mm).attention],
     inputs         |-> [i \in 1..Len(self.layers) |-> x],
     x_after    |-> x,
     self_after |-> self]

\* TransformerEncoder.get_attention_maps(x, mask): the list returned, the
\* tensor each layer's self_attn was given, and the caller's tensor and the
\* encoder after the call (x = layer(x) binds the local name only)
GetAttentionMaps(self, x, mm, seed) ==
    LET Result(loop_, n) ==
            [valid |-> TRUE,
             err   |-> n > 0 /\ loop_[n].err,
             arg   |-> x, mask |-> mm,
             attention_maps |-> [i \in 1..n |-> loop_[i].attn_map],
             inputs         |-> [i \in 1..n |-> loop_[i].input],
             x_after    |-> x,
             self_after |-> self]
        Count(loop_) == Result(loop_, Len(loop_))
    IN  Count(AttentionMapsLoop(self.layers, 1, x, mm, self.training, seed))

\* the constructor arguments, the input and the mask are drawn first
InitEnc ==
    /\ op = "start"
    /\ \E num_layers \in 0..MaxLayers, input_dim \in 1..MaxE,
          num_heads \in 1..MaxH, dim_feedforward \in 1..MaxFf :
         enc = EncArgs(num_layers,
                       BlockArgs(input_dim, num_heads, dim_feedforward,
                                 FX \div 2, 1))
    /\ \E b \in 1..MaxB, t \in 1..MaxT :
         /\ enc_x = Fill(<<b, t, enc.block_args.input_dim>>, 1)
         /\ enc_mask \in {NoMask, CausalMask(t)}
    /\ enc_out = NoEncCall
    /\ enc_prev = NoEncCall
    /\ enc_maps = NoMapsCall
    /\ rng = 1
    /\ AuxIdle
    /\ SdpIdle
    /\ MhaIdle
    /\ PeIdle
    /\ NetIdle

\* the number of random draws one pass over the layers takes from the
\* generator: three dropout calls per block, in training mode only
DropoutDraws(self) ==
    IF self.training /\ self.block_args.dropout > 0
    THEN 3 * Len(self.layers) ELSE 0

\* transformer = TransformerEncoder(num_layers, input_dim=..., ...)
EncInitCall ==
    /\ op = "start"
    /\ enc.state = "args"
    /\ op' = "enc_init"
    /\ enc' = EncConstruct(enc)
    /\ UNCHANGED <<auxVars, enc_x, enc_mask, enc_out, enc_prev, enc_maps, rng,
                   sdpVars, mhaVars, peVars, netVars>>

\* model.train() or model.eval()
EncModeCall ==
    /\ op = "enc_init"
    /\ enc.state = "constructed"
    /\ op' = "enc_mode"
    /\ \E mode \in BOOLEAN : enc' = [enc EXCEPT !.training = mode]
    /\ UNCHANGED <<auxVars, enc_x, enc_mask, enc_out, enc_prev, enc_maps, rng,
                   sdpVars, mhaVars, peVars, netVars>>

\* transformer(x, mask=mask), at most twice
EncForwardCall ==
    /\ op \in {"enc_mode", "enc_forward", "enc_maps"}
    /\ ~enc_prev.valid
    /\ enc_out' = [TransformerEncoderForward(enc, enc_x, enc_mask, rng)
                      EXCEPT !.maps_before = enc_maps.valid]
    /\ rng' = rng + DropoutDraws(enc)
    /\ enc_prev' = enc_out
    /\ op' = "enc_forward"
    /\ UNCHANGED <<auxVars, enc, enc_x, enc_mask, enc_maps,
                   sdpVars, mhaVars, peVars, netVars>>

\* transformer.get_attention_maps(x, mask=mask), once, after a forward call
GetAttentionMapsCall ==
    /\ op = "enc_forward"
    /\ ~enc_maps.valid
    /\ enc_maps' = GetAttentionMaps(enc, enc_x, enc_mask, rng)
    /\ enc_x' = enc_maps'.x_after
    /\ enc' = enc_maps'.self_after
    /\ rng' = rng + DropoutDraws(enc)
    /\ op' = "enc_maps"
    /\ UNCHANGED <<auxVars, enc_mask, enc_out, enc_prev, sdpVars, mhaVars, peVars, netVars>>

NextEnc == EncInitCall \/ EncModeCall \/ EncForwardCall \/ GetAttentionMapsCall

SpecEnc == InitEnc /\ [][NextEnc]_vars

\* C12: EncoderBlock.forward is shape-preserving: every block call of a
\* constructed encoder (num_heads divides input_dim, any dim_feedforward), on
\* an input [B, T, input_dim], with or without a mask, returns without an
\* error a tensor of the shape of its input.
C12_BlockShapePreserved ==
    enc_out.valid =>
        \A i \in 1..Len(enc_out.calls) :
            /\ ~enc_out.calls[i].err
            /\ enc_out.calls[i].x.shape
                  = <<enc_x.shape[1], enc_x.shape[2], enc.block_args.input_dim>>
            /\ enc_out.calls[i].out.shape = enc_out.calls[i].x.shape

\* two blocks called with a mask, hidden layer narrower than the input
C12_Witness ==
    /\ op = "enc_forward"
    /\ Len(enc_out.calls) = 2
    /\ enc_out.mask # NoMask
    /\ enc.block_args.num_heads = 2
    /\ enc.block_args.dim_feedforward < enc.block_args.input_dim
    /\ enc_out.calls[2].out.shape = <<MaxB, MaxT, MaxE>>

\* C13: EncoderBlock.forward is post-norm: x1 = norm1(x + dropout(self_attn(x,
\* mask))) and the result is norm2(x1 + dropout(linear_net(x1))); the second
\* residual adds x1, and each normalisation follows its residual addition.
C13_PostNormOrder ==
    enc_out.valid =>
        \A i \in 1..Len(enc_out.calls) :
            LET call == enc_out.calls[i]
                blk  == enc.layers[i]
                p    == blk.dropout
            IN  ~call.err =>
                  /\ call.attn_out = MhaForward(blk.self_attn, call.x, call.mask).o
                  /\ call.drop1 = Dropout(call.attn_out, p, enc_out.training, call.seed)
                  /\ call.x1 = LayerNorm(AddBroadcast(call.x, call.drop1))
                  /\ call.linear_out
                        = LinearNet(blk, call.x1, enc_out.training, call.seed + 1)
                  /\ call.drop2
                        = Dropout(call.linear_out, p, enc_out.training, call.seed + 2)
                  /\ call.out = LayerNorm(AddBroadcast(call.x1, call.drop2))

\* a block call in training mode in which dropout changed both sub-layer
\* outputs and adding the block's input instead of x1 gives another result
C13_Witness ==
    /\ op = "enc_forward"
    /\ enc_out.training
    /\ Len(enc_out.calls) >= 1
    /\ ~enc_out.calls[1].err
    /\ enc_out.calls[1].drop1 # enc_out.calls[1].attn_out
    /\ enc_out.calls[1].drop2 # enc_out.calls[1].linear_out
    /\ enc_out.calls[1].out
          # LayerNorm(AddBroadcast(enc_out.calls[1].x, enc_out.calls[1].drop2))

\* C14: TransformerEncoder.forward(x, mask) calls each of its N blocks once,
\* in list order: block 1 gets x, block i + 1 gets the output of block i,
\* every block gets the same mask, the result is the output of block N, and
\* with N = 0 the result is x.
C14_LayersInOrder ==
    (enc_out.valid /\ ~enc_out.err) =>
        LET calls == enc_out.calls
            n     == Len(calls)
        IN  /\ n = enc.num_layers
            /\ n = Len(enc.layers)
            /\ \A i \in 1..n :
                  /\ calls[i].mask = enc_out.mask
                  /\ calls[i].x = IF i = 1 THEN enc_out.arg ELSE calls[i - 1].out
                  /\ calls[i].out
                        = EncoderBlockForward(enc.layers[i], calls[i].x, enc_out.mask,
                                              enc_out.training, calls[i].seed).out
            /\ enc_out.out = IF n = 0 THEN enc_out.arg ELSE calls[n].out

\* a forward call through two differently initialised blocks with a mask,
\* the second block's input differing from the first block's
C14_Witness ==
    /\ op = "enc_forward"
    /\ ~enc_out.err
    /\ Len(enc_out.calls) = 2
    /\ enc_out.mask # NoMask
    /\ enc.layers[1] # enc.layers[2]
    /\ enc_out.calls[2].x # enc_out.calls[1].x
    /\ enc_out.out # enc_out.arg

\* C15: get_attention_maps(x, mask) returns N attention tensors, the i-th
\* computed by block i's self_attn (block order); it writes neither the
\* parameters nor x, and in evaluation mode forward returns the same result
\* before and after the call.
C15_AttentionMapsFrame ==
    /\ enc.state = "constructed" =>
          enc.layers = EncConstruct(EncArgs(enc.num_layers, enc.block_args)).layers
    /\ enc_maps.valid =>
          /\ ~enc_maps.err
          /\ Len(enc_maps.attention_maps) = enc.num_layers
          /\ \A i \in 1..Len(enc_maps.attention_maps) :
                /\ Rank(enc_maps.attention_maps[i]) = 4
                /\ enc_maps.attention_maps[i]
                      = MhaForward(enc.layers[i].self_attn, enc_maps.inputs[i],
                                   enc_maps.mask).attention
                /\ i = 1 => enc_maps.inputs[i] = enc_maps.arg
                /\ (i > 1 /\ ~enc.training) =>
                      enc_maps.inputs[i]
                          = EncoderBlockForward(enc.layers[i - 1],
                                                enc_maps.inputs[i - 1], NoMask,
                                                FALSE, 0).out
          /\ enc_x = enc_maps.arg
          /\ enc_maps.self_after = enc
    /\ (enc_out.valid /\ enc_prev.valid /\ ~enc_out.training /\ ~enc_prev.training) =>
          /\ enc_out.arg = enc_prev.arg
          /\ enc_out.out = enc_prev.out

\* in evaluation mode: forward, get_attention_maps on two blocks, forward again
C15_Witness ==
    /\ op = "enc_forward"
    /\ ~enc.training
    /\ enc_prev.valid /\ ~enc_prev.maps_before
    /\ enc_out.valid /\ enc_out.maps_before
    /\ Len(enc_maps.attention_maps) = 2
    /\ enc_maps.attention_maps[1] # enc_maps.attention_maps[2]
    /\ enc_out.out # enc_out.arg

(***************************************************************************)
(* TransformerPredictor.                                                   *)
(***************************************************************************)
MaxClasses   == 2   \* num_classes 1..MaxClasses
MaxNetLayers == 1   \* num_layers of the predictor 0..MaxNetLayers

\* max_len=5000, the default of PositionalEncoding.__init__
PeDefaultMaxLen == 5000

\* the pending call TransformerPredictor(input_dim, model_dim, num_classes,
\* num_heads, num_layers, dropout, input_dropout); seed stands for the values
\* of the parameters
NetArgs(input_dim, model_dim, num_classes, num_heads, num_layers, dropout, input_dropout, seed) ==
    [state |-> "args", training |-> TRUE,
     input_dim |-> input_dim, model_dim |-> model_dim,
     num_classes |-> num_classes, num_heads |-> num_heads,
     num_layers |-> num_layers, dropout |-> dropout,
     input_dropout |-> input_dropout, seed |-> seed]

\* self.positional_encoding of the predictor
NetPositionalEncoding(self) == PeConstruct(PeArgs(self.model_dim, PeDefaultMaxLen))

\* self.transformer of the predictor, in the predictor's mode
NetTransformer(self) ==
    [EncConstruct(EncArgs(self.num_layers,
                          BlockArgs(self.model_dim, self.num_heads,
                                    2 * self.model_dim, self.dropout,
                                    self.seed + 4)))
        EXCEPT !.training = self.training]

\* TransformerPredictor.__init__: it fails when the constructor of the
\* positional encoding or of an encoder block fails
NetConstruct(a) ==
    IF NetPositionalEncoding(a).state = "error" \/ NetTransformer(a).state = "error"
    THEN [a EXCEPT !.state = "error"]
    ELSE [a EXCEPT !.state = "constructed"]

\* self.input_net(x): Dropout(input_dropout), Linear(input_dim, model_dim)
InputNet(self, x, seed) ==
    LET h == Dropout(x, self.input_dropout, self.training, seed)
    IN  Force(Linear(h, KaimingUniform(<<self.model_dim, self.input_dim>>, self.seed),
                     KaimingUniform(<<self.model_dim>>, self.seed + 1)))

\* self.output_net(x): Linear(model_dim, model_dim), LayerNorm, ReLU, Dropout,
\* Linear(model_dim, num_classes)
OutputNet(self, x, seed) ==
    LET h1 == Force(Linear(x, KaimingUniform(<<self.model_dim, self.model_dim>>,
                                             self.seed + 2),
                           KaimingUniform(<<self.model_dim>>, self.seed + 3)))
        h2 == LayerNorm(h1)
        h3 == Relu(h2)
        h4 == Dropout(h3, self.dropout, self.training, seed)
    IN  Force(Linear(h4, KaimingUniform(<<self.num_classes, self.model_dim>>,
                                        self.seed + 1),
                     KaimingUniform(<<self.num_classes>>, self.seed + 2)))

NoNetCall == [valid |-> FALSE, err |-> FALSE, arg |-> NoTensor, mask |-> NoMask,
              add_positional_encoding |-> FALSE, training |-> FALSE,
              params |-> 0, seed |-> 0, stages |-> <<>>, blocks |-> <<>>,
              out |-> NoTensor]

\* one executed stage of forward: its name, its argument and its result
Stage(name, x, out) == [name |-> name, x |-> x, out |-> out]

\* forward with the positional encoding added whatever the flag says
TransformerPredictorForwardAlwaysPe(self, x, mm, add_positional_encoding, seed) ==
    LET base == [NoNetCall EXCEPT !.valid = TRUE, !.arg = x, !.mask = mm,
                     !.add_positional_encoding = add_positional_encoding,
                     !.training = self.training, !.params = self.seed,
                     !.seed = seed]
        x1 == InputNet(self, x, seed)
        s1 == <<Stage("input_net", x, x1)>>
        pe == PeForward(NetPositionalEncoding(self), x1)
        x2 == Force(pe.out)
        s2 == s1 \o <<Stage("positional_encoding", x1, x2)>>
        tr == TransformerEncoderForward(NetTransformer(self), x2, mm, seed + 1)
        s3 == s2 \o <<Stage("transformer", x2, tr.out)>>
        x4 == OutputNet(self, tr.out, seed + 1 + 3 * Len(tr.calls))
        s4 == s3 \o <<Stage("output_net", tr.out, x4)>>
    IN  IF Rank(x) # 3 \/ x.shape[3] # self.input_dim \/ pe.err \/ tr.err
        THEN [base EXCEPT !.err = TRUE]
        ELSE [base EXCEPT !.stages = s4, !.blocks = tr.calls, !.out = x4]

\* the call record of forward before any stage has run
NetCallBase(self, x, mm, add_positional_encoding, seed) ==
    [NoNetCall EXCEPT !.valid = TRUE, !.arg = x, !.mask = mm,
                      !.add_positional_encoding = add_positional_encoding,
                      !.training = self.training, !.params = self.seed,
                      !.seed = seed]

\* return x: the stages executed (x1 is input_net's result, pe the call of
\* the positional encoding, tr the call of the transformer, x4 the logits)
ForwardReturn(self, x, mm, add_positional_encoding, seed, x1, pe, tr, x4) ==
    IF pe.err \/ tr.err
    THEN [NetCallBase(self, x, mm, add_positional_encoding, seed) EXCEPT !.err = TRUE]
    ELSE [NetCallBase(self, x, mm, add_positional_encoding, seed) EXCEPT
            !.stages = <<Stage("input_net", x, x1)>>
                       \o (IF add_positional_encoding
                           THEN <<Stage("positional_encoding", x1, pe.out)>>
                           ELSE <<>>)
                       \o <<Stage("transformer", pe.out, tr.out),
                            Stage("output_net", tr.out, x4)>>,
            !.blocks = tr.calls,
            !.out = x4]

\* x = self.output_net(x) and what follows it
ForwardOutputNet(self, x, mm, add_positional_encoding, seed, x1, pe, tr) ==
    ForwardReturn(self, x, mm, add_positional_encoding, seed, x1, pe, tr,
                  OutputNet(self, tr.out, seed + 1 + 3 * Len(tr.calls)))

\* x = self.transformer(x, mask=mask) and what follows it
ForwardTransformer(self, x, mm, add_positional_encoding, seed, x1, pe) ==
    ForwardOutputNet(self, x, mm, add_positional_encoding, seed, x1, pe,
                     TransformerEncoderForward(NetTransformer(self), pe.out, mm,
                                               seed + 1))

\* if add_positional_encoding: x = self.positional_encoding(x), and what
\* follows it
ForwardPositionalEncoding(self, x, mm, add_positional_encoding, seed, x1) ==
    ForwardTransformer(self, x, mm, add_positional_encoding, seed, x1,
                       IF add_positional_encoding
                       THEN PeForward(NetPositionalEncoding(self), x1)
                       ELSE [NoCall EXCEPT !.out = x1])

\* TransformerPredictor.forward(x, mask, add_positional_encoding): the logits
\* out, the stages executed in order and the block calls of the transformer;
\* params names the parameter values and seed the state of the random
\* generator at the call
TransformerPredictorForward(self, x, mm, add_positional_encoding, seed) ==
    IF Rank(x) # 3 \/ x.shape[3] # self.input_dim
    THEN [NetCallBase(self, x, mm, add_positional_encoding, seed) EXCEPT !.err = TRUE]
    ELSE ForwardPositionalEncoding(self, x, mm, add_positional_encoding, seed,
                                   InputNet(self, x, seed))

\* the number of random draws of one forward call: input_net's dropout, the
\* blocks' dropouts and output_net's dropout, in training mode only
NetDropoutDraws(self) ==
    IF self.training THEN 2 + 3 * self.num_layers ELSE 0

(***************************************************************************)
(* The training loop and the validation loop.                              *)
(***************************************************************************)
MaxEpochs     == 2   \* epochs of the training loop
MaxBatches    == 2   \* batches of train_loader
MaxValBatches == 2   \* batches of val_loader

\* F.one_hot(inputs, num_classes=n).float() for the batch drawn with seed
OneHot(b, t, n, seed) ==
    Tensor(<<b, t, n>>,
           LAMBDA s : IF (seed + s[1] + 2 * s[2]) % n = s[3] - 1 THEN FX ELSE 0)

\* the loop before the model is created; shape is <<B, T>> of the batches
LoopStart(b, t) ==
    [pc |-> "create", shape |-> <<b, t>>, epoch |-> 0, batch |-> 0,
     trace |-> <<>>, grad |-> <<>>, loss_of |-> 0,
     params_before |-> 0, params_at_eval |-> 0]

\* the number of the batch in the whole run, naming its loss and gradient
BatchId(l) == (l.epoch - 1) * MaxBatches + l.batch

\* zero_grad that leaves the accumulated gradients in place
ZeroGradKeep(grad) == grad

\* optimizer.zero_grad(): the .grad of every parameter is cleared
ZeroGrad(grad) == <<>>

\* loss.backward(): the gradient of the loss is added to the .grad of every
\* parameter
Backward(grad, loss_of) == Append(grad, loss_of)

\* optimizer.step() of Adam: every parameter gets a new value computed from
\* its .grad
AdamStep(self, grad) == [self EXCEPT !.seed = ((self.seed + Len(grad)) % 3) + 1]

\* model.eval() without effect
ModelEvalKeepsMode(self) == self

\* model.eval()
ModelEval(self) == [self EXCEPT !.training = FALSE]

\* model.train()
ModelTrain(self) == [self EXCEPT !.training = TRUE]

\* the constructor arguments and the batch shape are drawn first
InitNet ==
    /\ op = "start"
    /\ \E input_dim \in 1..MaxD, model_dim \in 1..MaxE,
          num_classes \in 1..MaxClasses, num_heads \in 1..MaxH,
          num_layers \in 0..MaxNetLayers :
         net = NetArgs(input_dim, model_dim, num_classes, num_heads, num_layers,
                       FX \div 2, 0, 1)
    /\ \E b \in 1..MaxB, t \in 1..MaxT : loop = LoopStart(b, t)
    /\ net_out = NoNetCall
    /\ net_prev = NoNetCall
    /\ rng = 1
    /\ AuxIdle
    /\ SdpIdle
    /\ MhaIdle
    /\ PeIdle
    /\ EncIdle

\* model = TransformerPredictor(...); optimizer = Adam(model.parameters())
NetInitCall ==
    /\ loop.pc = "create"
    /\ net' = NetConstruct(net)
    /\ loop' = [loop EXCEPT !.pc = "created"]
    /\ op' = "net_init"
    /\ UNCHANGED <<auxVars, net_out, net_prev, rng, sdpVars, mhaVars, peVars, encVars>>

\* a single call model(x, mask, add_positional_encoding) outside the loops
NetForwardCall ==
    /\ loop.pc = "created"
    /\ net.state = "constructed"
    /\ \E mm \in {NoMask, CausalMask(loop.shape[2])}, add_pe \in BOOLEAN :
         net_out' = TransformerPredictorForward(
                        net, Fill(loop.shape \o <<net.input_dim>>, 1), mm, add_pe, rng)
    /\ net_prev' = net_out
    /\ rng' = rng + NetDropoutDraws(net)
    /\ loop' = [loop EXCEPT !.pc = "single_call"]
    /\ op' = "net_forward"
    /\ UNCHANGED <<auxVars, net, sdpVars, mhaVars, peVars, encVars>>

\* model.train(), before the first epoch
ModelTrainCall ==
    /\ loop.pc = "created"
    /\ net.state = "constructed"
    /\ net' = ModelTrain(net)
    /\ loop' = [loop EXCEPT !.pc = "train_mode"]
    /\ op' = "model_train"
    /\ UNCHANGED <<auxVars, net_out, net_prev, rng, sdpVars, mhaVars, peVars, encVars>>

\* optimizer.zero_grad(), the first statement of the next batch's iteration
ZeroGradCall ==
    /\ \/ /\ loop.pc = "train_mode"
          /\ loop' = [loop EXCEPT !.pc = "zero_grad", !.epoch = 1, !.batch = 1,
                                  !.trace = <<"zero_grad">>,
                                  !.grad = ZeroGrad(loop.grad),
                                  !.params_before = net.seed]
       \/ /\ loop.pc = "step"
          /\ loop.batch < MaxBatches
          /\ loop' = [loop EXCEPT !.pc = "zero_grad", !.batch = @ + 1,
                                  !.trace = <<"zero_grad">>,
                                  !.grad = ZeroGrad(loop.grad),
                                  !.params_before = net.seed]
       \/ /\ loop.pc = "step"
          /\ loop.batch = MaxBatches
          /\ loop.epoch < MaxEpochs
          /\ loop' = [loop EXCEPT !.pc = "zero_grad", !.epoch = @ + 1, !.batch = 1,
                                  !.trace = <<"zero_grad">>,
                                  !.grad = ZeroGrad(loop.grad),
                                  !.params_before = net.seed]
    /\ op' = "zero_grad"
    /\ UNCHANGED <<auxVars, net, net_out, net_prev, rng, sdpVars, mhaVars, peVars, encVars>>

\* inp_data = F.one_hot(inputs, ...).float(); outputs = model(inp_data)
TrainForwardCall ==
    /\ loop.pc = "zero_grad"
    /\ net_out' = TransformerPredictorForward(
                      net, OneHot(loop.shape[1], loop.shape[2], net.input_dim,
                                  BatchId(loop)),
                      NoMask, TRUE, rng)
    /\ net_prev' = net_out
    /\ rng' = rng + NetDropoutDraws(net)
    /\ loop' = [loop EXCEPT !.pc = "forward", !.trace = Append(@, "forward")]
    /\ op' = "train_forward"
    /\ UNCHANGED <<auxVars, net, sdpVars, mhaVars, peVars, encVars>>

\* loss = criterion(outputs.view(-1, 10), labels.view(-1)); train_loss += ...
LossCall ==
    /\ loop.pc = "forward"
    /\ loop' = [loop EXCEPT !.pc = "loss", !.trace = Append(@, "loss"),
                            !.loss_of = BatchId(loop)]
    /\ op' = "loss"
    /\ UNCHANGED <<auxVars, net, net_out, net_prev, rng, sdpVars, mhaVars, peVars, encVars>>

\* loss.backward()
BackwardCall ==
    /\ loop.pc = "loss"
    /\ loop' = [loop EXCEPT !.pc = "backward", !.trace = Append(@, "backward"),
                            !.grad = Backward(loop.grad, loop.loss_of)]
    /\ op' = "backward"
    /\ UNCHANGED <<auxVars, net, net_out, net_prev, rng, sdpVars, mhaVars, peVars, encVars>>

\* optimizer.step()
AdamStepCall ==
    /\ loop.pc = "backward"
    /\ net' = AdamStep(net, loop.grad)
    /\ loop' = [loop EXCEPT !.pc = "step", !.trace = Append(@, "step")]
    /\ op' = "step"
    /\ UNCHANGED <<auxVars, net_out, net_prev, rng, sdpVars, mhaVars, peVars, encVars>>

\* model.eval(), after the last batch of the last epoch
ModelEvalCall ==
    /\ loop.pc = "step"
    /\ loop.batch = MaxBatches
    /\ loop.epoch = MaxEpochs
    /\ net' = ModelEval(net)
    /\ loop' = [loop EXCEPT !.pc = "eval_mode", !.batch = 0, !.trace = <<>>,
                            !.params_at_eval = net.seed]
    /\ op' = "model_eval"
    /\ UNCHANGED <<auxVars, net_out, net_prev, rng, sdpVars, mhaVars, peVars, encVars>>

\* outputs = model(inp_data) of the validation loop, under torch.no_grad()
ValForwardCall ==
    /\ loop.pc \in {"eval_mode", "val_loss"}
    /\ loop.batch < MaxValBatches
    /\ net_out' = TransformerPredictorForward(
                      net, OneHot(loop.shape[1], loop.shape[2], net.input_dim,
                                  loop.batch + 1),
                      NoMask, TRUE, rng)
    /\ net_prev' = net_out
    /\ rng' = rng + NetDropoutDraws(net)
    /\ loop' = [loop EXCEPT !.pc = "val_forward", !.batch = @ + 1]
    /\ op' = "val_forward"
    /\ UNCHANGED <<auxVars, net, sdpVars, mhaVars, peVars, encVars>>

\* loss = criterion(...); val_loss += loss.item() of the validation loop
ValLossCall ==
    /\ loop.pc = "val_forward"
    /\ loop' = [loop EXCEPT !.pc = "val_loss", !.loss_of = loop.batch]
    /\ op' = "val_loss"
    /\ UNCHANGED <<auxVars, net, net_out, net_prev, rng, sdpVars, mhaVars, peVars, encVars>>

NextNet ==
    \/ NetInitCall \/ NetForwardCall \/ ModelTrainCall
    \/ ZeroGradCall \/ TrainForwardCall \/ LossCall \/ BackwardCall \/ AdamStepCall
    \/ ModelEvalCall \/ ValForwardCall \/ ValLossCall

SpecNet == InitNet /\ [][NextNet]_vars

\* the stage names forward runs through, in order
StageNames(add_positional_encoding) ==
    IF add_positional_encoding
    THEN <<"input_net", "positional_encoding", "transformer", "output_net">>
    ELSE <<"input_net", "transformer", "output_net">>

\* C16: TransformerPredictor.forward runs input_net, then the positional
\* encoding exactly when add_positional_encoding is true, then transformer(x,
\* mask), then output_net, each stage on the previous stage's result, and for
\* an input [B, T, input_dim] returns logits of shape [B, T, num_classes].
C16_PredictorPipeline ==
    net_out.valid =>
        LET st   == net_out.stages
            n    == Len(st)
            self == [net EXCEPT !.seed = net_out.params,
                                !.training = net_out.training]
        IN  /\ ~net_out.err
            /\ [i \in 1..n |-> st[i].name] = StageNames(net_out.add_positional_encoding)
            /\ st[1].x = net_out.arg
            /\ \A i \in 2..n : st[i].x = st[i - 1].out
            /\ \A i \in 1..n :
                  st[i].out
                    = CASE st[i].name = "input_net" ->
                             InputNet(self, st[i].x, net_out.seed)
                        [] st[i].name = "positional_encoding" ->
                             PeForward(NetPositionalEncoding(self), st[i].x).out
                        [] st[i].name = "transformer" ->
                             TransformerEncoderForward(NetTransformer(self), st[i].x,
                                                       net_out.mask,
                                                       net_out.seed + 1).out
                        [] st[i].name = "output_net" ->
                             OutputNet(self, st[i].x,
                                       net_out.seed + 1 + 3 * Len(net_out.blocks))
            /\ net_out.out = st[n].out
            /\ net_out.arg.shape = loop.shape \o <<net.input_dim>>
            /\ net_out.out.shape = loop.shape \o <<net.num_classes>>

\* a single call with a mask and the positional encoding, in which the
\* encoding changed the tensor and num_classes differs from the other sizes
C16_Witness ==
    /\ loop.pc = "single_call"
    /\ net_out.add_positional_encoding
    /\ net_out.mask # NoMask
    /\ Len(net_out.stages) = 4
    /\ net_out.stages[2].out # net_out.stages[2].x
    /\ Len(net_out.blocks) = 1
    /\ net.num_classes # net.model_dim
    /\ net.num_classes # net.input_dim
    /\ net_out.out.shape = <<MaxB, MaxT, net.num_classes>>

\* the operations of one iteration of the training loop, in order
BatchSequence == <<"zero_grad", "forward", "loss", "backward", "step">>

\* C19: every batch of the training loop is processed as zero_grad, forward,
\* loss, backward, optimizer.step in this order; the parameters are written
\* by optimizer.step only (not between zero_grad and the end of backward),
\* and the gradient a step uses is the gradient of the current batch alone.
C19_TrainingStepOrder ==
    /\ [](loop.pc \in {"zero_grad", "forward", "loss", "backward", "step"} =>
            /\ loop.trace = SubSeq(BatchSequence, 1, Len(loop.trace))
            /\ loop.trace[Len(loop.trace)] = loop.pc
            /\ loop.pc # "step" => net.seed = loop.params_before
            /\ loop.pc \in {"forward", "loss", "backward"} =>
                  /\ net_out.valid /\ ~net_out.err
                  /\ net_out.arg = OneHot(loop.shape[1], loop.shape[2],
                                          net.input_dim, BatchId(loop))
            /\ loop.pc \in {"backward", "step"} => loop.grad = <<BatchId(loop)>>
            /\ loop.pc = "step" => net.seed # loop.params_before)
    /\ [][net'.seed # net.seed => (loop.pc = "backward" /\ loop'.pc = "step")]_vars

\* the optimizer step of the second epoch's first batch has been taken
C19_Witness ==
    /\ loop.pc = "step"
    /\ loop.epoch = 2 /\ loop.batch = 1
    /\ loop.grad = <<MaxBatches + 1>>
    /\ net.seed # loop.params_before

\* C20: after model.eval() every forward call of the validation loop runs
\* with dropout disabled, is deterministic (the logits do not depend on the
\* random generator) and no parameter is written; every forward call of the
\* training loop runs in training mode.
C20_EvalModeDeterministic ==
    /\ loop.pc \in {"forward", "loss", "backward"} =>
          /\ net.training
          /\ net_out.training
    /\ loop.pc \in {"eval_mode", "val_forward", "val_loss"} =>
          /\ ~net.training
          /\ net.seed = loop.params_at_eval
    /\ loop.pc = "val_forward" =>
          /\ ~net_out.training
          /\ ~net_out.err
          /\ \A i \in 1..Len(net_out.blocks) :
                /\ net_out.blocks[i].drop1 = net_out.blocks[i].attn_out
                /\ net_out.blocks[i].drop2 = net_out.blocks[i].linear_out
          /\ \A r \in 1..MaxSeed :
                TransformerPredictorForward(net, net_out.arg, NoMask, TRUE, r).out
                    = net_out.out

\* a validation forward through a block whose result in training mode (with
\* dropout drawing) would have been another one
C20_Witness ==
    /\ loop.pc = "val_forward"
    /\ loop.batch = MaxValBatches
    /\ Len(net_out.blocks) = 1
    /\ ~net_out.training
    /\ TransformerPredictorForward(ModelTrain(net), net_out.arg, NoMask, TRUE, rng).out
          # net_out.out

(***************************************************************************)
(* Calls of scaled_dot_product on arguments whose shapes need not fit:     *)
(* the sequence lengths and feature sizes of q, k and v are drawn          *)
(* independently, the feature sizes from 0.                                *)
(***************************************************************************)
InitSdpShapes ==
    /\ op = "start"
    /\ \E lead \in LeadShapes, tq \in 1..MaxT, tk \in 1..MaxT, tv \in 1..MaxT,
          dq \in 0..MaxD, dk \in 0..MaxD, dv \in 1..MaxD, seed \in Seeds :
         /\ q = Fill(lead \o <<tq, dq>>, seed)
         /\ k = Fill(lead \o <<tk, dk>>, seed + 1)
         /\ v = Fill(lead \o <<tv, dv>>, seed + 2)
    /\ mask = NoMask
    /\ sdp = SdpError
    /\ MhaIdle
    /\ PeIdle
    /\ EncIdle
    /\ NetIdle
    /\ rng = 0
    /\ AuxIdle

NextSdpShapes == ScaledDotProductCall

SpecSdpShapes == InitSdpShapes /\ [][NextSdpShapes]_vars

\* the last axis of q and of k differ, or k and v differ in sequence length
ShapesMismatch ==
    \/ q.shape[Rank(q)] # k.shape[Rank(k)]
    \/ k.shape[Rank(k) - 1] # v.shape[Rank(v) - 1]

\* C17: a call of scaled_dot_product in which Q and K differ in their last
\* dimension, or K and V differ in sequence length, raises and returns
\* neither an output nor attention weights.
C17_MismatchRaises ==
    (op = "scaled_dot_product" /\ ShapesMismatch) =>
        /\ sdp.err
        /\ sdp.output = NoTensor
        /\ sdp.attention_weight = NoTensor

\* a call in which q @ k^T is defined and only k and v differ in length
C17_Witness ==
    /\ op = "scaled_dot_product"
    /\ q.shape[Rank(q)] = k.shape[Rank(k)]
    /\ q.shape[Rank(q)] >= 1
    /\ k.shape[Rank(k) - 1] # v.shape[Rank(v) - 1]
    /\ Rank(q) = 4
    /\ sdp.err

\* C18: a call of scaled_dot_product with d_k = 0 (the last axis of Q and K
\* is empty) raises an error instead of returning an output.
C18_EmptyFeaturesRaise ==
    (op = "scaled_dot_product" /\ q.shape[Rank(q)] = 0 /\ k.shape[Rank(k)] = 0) =>
        sdp.err

(***************************************************************************)
(* The feed-forward sub-layer of EncoderBlock.                             *)
(***************************************************************************)
\* Linear1 of block blk at one position: feature f of W1 x[b, t, :] + b1
Linear1At(blk, x, b, t, f) ==
    SeqSum([c \in 1..blk.input_dim |->
               MulDiv(x.data[<<b, t, c>>], blk.w1.data[<<f, c>>], FX)])
        + blk.b1.data[<<f>>]

\* dropout applied to the entry value at index s of the hidden tensor
DropoutAt(value, s, p, training, seed) ==
    IF ~training \/ p = 0 THEN value
    ELSE IF p < FX /\ Pat(seed, s) >= 0 THEN (value * FX) \div (FX - p) ELSE 0

\* Linear2(Dropout(ReLU(Linear1(x)))) computed position by position: entry
\* <<b, t, j>> reads x at position <<b, t>> only
FeedForwardAt(blk, x, training, seed, b, t, j) ==
    SeqSum([f \in 1..blk.dim_feedforward |->
               MulDiv(DropoutAt(IF Linear1At(blk, x, b, t, f) > 0
                                THEN Linear1At(blk, x, b, t, f) ELSE 0,
                                <<b, t, f>>, blk.dropout, training, seed),
                      blk.w2.data[<<j, f>>], FX)])
        + blk.b2.data[<<j>>]

\* C22: the feed-forward sub-layer of EncoderBlock computes
\* Linear2(Dropout(ReLU(Linear1(x)))): in every block call, linear_out is the
\* second linear map of the dropout of the ReLU of the first linear map of
\* x1, and its entry at a sequence position is computed from x1 at that
\* position alone.
C22_FeedForwardOrder ==
    enc_out.valid =>
        \A i \in 1..Len(enc_out.calls) :
            LET call == enc_out.calls[i]
                blk  == enc.layers[i]
            IN  ~call.err =>
                  /\ call.linear_out
                        = Linear(Dropout(Relu(Linear(call.x1, blk.w1, blk.b1)),
                                         blk.dropout, enc_out.training,
                                         call.seed + 1),
                                 blk.w2, blk.b2)
                  /\ call.linear_out.shape = call.x1.shape
                  /\ \A s \in Idx(call.x1.shape) :
                        call.linear_out.data[s]
                           = FeedForwardAt(blk, call.x1, enc_out.training,
                                           call.seed + 1, s[1], s[2], s[3])

\* a block call in training mode on MaxT positions whose first linear map
\* has negative entries that ReLU clips, where dropout changes the hidden
\* layer and leaving ReLU out would change the result
C22_Witness ==
    /\ op = "enc_forward"
    /\ enc_out.valid /\ enc_out.training
    /\ \E i \in 1..Len(enc_out.calls) :
         LET call == enc_out.calls[i]
             blk  == enc.layers[i]
             h1   == Linear(call.x1, blk.w1, blk.b1)
         IN  /\ ~call.err
             /\ call.x1.shape[2] = MaxT
             /\ blk.dim_feedforward = MaxFf
             /\ \E s \in Idx(h1.shape) : h1.data[s] < 0
             /\ Dropout(Relu(h1), blk.dropout, TRUE, call.seed + 1) # Relu(h1)
             /\ call.linear_out
                   # Linear(Dropout(h1, blk.dropout, TRUE, call.seed + 1),
                            blk.w2, blk.b2)

(***************************************************************************)
(* The head layout of MultiheadAttention.forward.                          *)
(***************************************************************************)
\* the projected feature (1-based) that is component j of part c (1 = q,
\* 2 = k, 3 = v) of head h
ProjectedFeature(h, c, j, head_dim) == (h - 1) * 3 * head_dim + (c - 1) * head_dim + j

\* C23: a forward call that returns splits the 3 * embed_dim projected
\* features of every position into num_heads x {q, k, v} groups of head_dim
\* features, every feature in exactly one group, and the tensor given to
\* o_proj holds component j of head h's output at feature h * head_dim + j
\* (0-based) of the same batch and sequence position.
C23_HeadLayout ==
    (op = "mha_forward" /\ ~mha_out.err) =>
        LET H    == mha.num_heads
            hd   == mha.head_dim
            B    == mha_x.shape[1]
            T    == mha_x.shape[2]
            part == <<mha_out.q, mha_out.k, mha_out.v>>
        IN  /\ mha_out.qkv = Linear(mha_x, mha.qkv_w, mha.qkv_b)
            /\ mha_out.qkv.shape = <<B, T, 3 * mha.embed_dim>>
            /\ \A f \in 1..(3 * mha.embed_dim) :
                  Cardinality({g \in (1..H) \X (1..3) \X (1..hd) :
                                  ProjectedFeature(g[1], g[2], g[3], hd) = f}) = 1
            /\ \A c \in 1..3 :
                  /\ part[c].shape = <<B, H, T, hd>>
                  /\ \A s \in Idx(<<B, H, T, hd>>) :
                        part[c].data[s]
                           = mha_out.qkv.data[<<s[1], s[3],
                                 ProjectedFeature(s[2], c, s[4], hd)>>]
            /\ mha_out.values.shape = <<B, H, T, hd>>
            /\ mha_out.concat.shape = <<B, T, mha.embed_dim>>
            /\ \A s \in Idx(<<B, H, T, hd>>) :
                  mha_out.concat.data[<<s[1], s[3], (s[2] - 1) * hd + s[4]>>]
                     = mha_out.values.data[s]
            /\ mha_out.o = Linear(mha_out.concat, mha.o_w, mha.o_b)

\* a call with two heads of two features on MaxB x MaxT positions in which
\* q, k and v differ and the two heads' outputs differ
C23_Witness ==
    /\ op = "mha_forward"
    /\ ~mha_out.err
    /\ mha.num_heads = 2 /\ mha.head_dim = 2
    /\ mha_x.shape = <<MaxB, MaxT, mha.embed_dim>>
    /\ mha_out.q # mha_out.k /\ mha_out.k # mha_out.v /\ mha_out.q # mha_out.v
    /\ \E b \in 1..MaxB, t \in 1..MaxT, j \in 1..2 :
         mha_out.values.data[<<b, 1, t, j>>] # mha_out.values.data[<<b, 2, t, j>>]
    /\ \E b \in 1..MaxB, j \in 1..2 :
         mha_out.values.data[<<b, 2, 1, j>>] # mha_out.values.data[<<b, 1, 2, j>>]

(***************************************************************************)
(* ReverseDataset.  A tensor of integers of shape [size, seq_len] is the   *)
(* sequence of its rows.                                                   *)
(***************************************************************************)
MaxCategories == 3   \* num_categories 1..MaxCategories
MaxSeqLen     == 3   \* seq_len 1..MaxSeqLen
MaxSize       == 3   \* size 1..MaxSize
MaxCalls      == 2   \* __getitem__ calls made

\* torch.randint(high, size=(size, seq_len)): integers of 0..high-1 drawn by
\* a seed
RandInt(high, size, seq_len, seed) ==
    [i \in 1..size |-> [j \in 1..seq_len |-> (seed + i * (j + seed) + 2 * j) % high]]

\* the pending call ReverseDataset(num_categories, seq_len, size)
ReverseDatasetArgs(num_categories, seq_len, size, seed) ==
    [state |-> "args", num_categories |-> num_categories, seq_len |-> seq_len,
     size |-> size, seed |-> seed, data |-> <<>>]

\* ReverseDataset.__init__
ReverseDatasetConstruct(a) ==
    [a EXCEPT !.state = "constructed",
              !.data  = RandInt(a.num_categories, a.size, a.seq_len, a.seed)]

\* ReverseDataset.__len__
ReverseDatasetLen(self) == self.size

\* torch.flip(row, dims=(0,)): a new tensor
Flip(row) == [i \in 1..Len(row) |-> row[Len(row) + 1 - i]]

NoItem == [valid |-> FALSE, err |-> FALSE, idx |-> 0, inp_data |-> <<>>,
           labels |-> <<>>, calls |-> 0, self_after |-> NoObject]

\* __getitem__ that reverses the stored row in place
GetItemFlipInPlace(self, idx) ==
    IF idx < -self.size \/ idx >= self.size
    THEN [NoItem EXCEPT !.valid = TRUE, !.err = TRUE, !.idx = idx,
                        !.self_after = self]
    ELSE LET row == (IF idx < 0 THEN idx + self.size ELSE idx) + 1
         IN  [NoItem EXCEPT !.valid = TRUE, !.idx = idx,
                            !.inp_data = Flip(self.data[row]),
                            !.labels = Flip(self.data[row]),
                            !.self_after =
                                [self EXCEPT !.data[row] = Flip(self.data[row])]]

\* ReverseDataset.__getitem__(idx): indexing self.data raises for an index
\* outside -size .. size-1; a negative index counts from the end
GetItem(self, idx) ==
    IF idx < -self.size \/ idx >= self.size
    THEN [NoItem EXCEPT !.valid = TRUE, !.err = TRUE, !.idx = idx,
                        !.self_after = self]
    ELSE LET row == (IF idx < 0 THEN idx + self.size ELSE idx) + 1
         IN  [NoItem EXCEPT !.valid = TRUE, !.idx = idx,
                            !.inp_data = self.data[row],
                            !.labels = Flip(self.data[row]),
                            !.self_after = self]

CoreIdle == op = "start" /\ SdpIdle /\ MhaIdle /\ PeIdle /\ EncIdle /\ NetIdle
            /\ rng = 0

coreVars == <<op, sdpVars, mhaVars, peVars, encVars, netVars, rng>>

\* the constructor arguments are drawn first
InitDataset ==
    /\ \E num_categories \in 1..MaxCategories, seq_len \in 1..MaxSeqLen,
          size \in 1..MaxSize, seed \in Seeds :
         dataset = ReverseDatasetArgs(num_categories, seq_len, size, seed)
    /\ item = NoItem
    /\ loader = NoObject
    /\ val = NoObject
    /\ PostIdle
    /\ ColIdle
    /\ CoreIdle

\* dataset = ReverseDataset(num_categories, seq_len, size)
DatasetInitCall ==
    /\ dataset.state = "args"
    /\ dataset' = ReverseDatasetConstruct(dataset)
    /\ UNCHANGED <<item, loader, val, postVars, colVars, coreVars>>

\* inp_data, labels = dataset[idx]
GetItemCall ==
    /\ dataset.state = "constructed"
    /\ item.calls < MaxCalls
    /\ \E idx \in (-dataset.size - 1)..dataset.size :
         item' = [GetItem(dataset, idx) EXCEPT !.calls = item.calls + 1]
    /\ dataset' = item'.self_after
    /\ UNCHANGED <<loader, val, postVars, colVars, coreVars>>

NextDataset == DatasetInitCall \/ GetItemCall

SpecDataset == InitDataset /\ [][NextDataset]_vars

\* C24: for every idx < size, __getitem__(idx) returns row idx of the stored
\* data and labels of the same length with labels[i] = inp[seq_len - 1 - i]
\* (reversing labels gives inp back), every element is in 0..num_categories-1,
\* __len__ is size, and no sequence of __getitem__ calls changes the stored
\* data.
C24_GetItemReverses ==
    /\ dataset.state = "constructed" =>
          /\ ReverseDatasetLen(dataset) = dataset.size
          /\ Len(dataset.data) = dataset.size
          /\ dataset.data = RandInt(dataset.num_categories, dataset.size,
                                    dataset.seq_len, dataset.seed)
    /\ (item.valid /\ item.idx >= 0 /\ item.idx < dataset.size) =>
          /\ ~item.err
          /\ item.inp_data = RandInt(dataset.num_categories, dataset.size,
                                     dataset.seq_len, dataset.seed)[item.idx + 1]
          /\ Len(item.inp_data) = dataset.seq_len
          /\ Len(item.labels) = dataset.seq_len
          /\ \A i \in 0..(dataset.seq_len - 1) :
                /\ item.labels[i + 1] = item.inp_data[dataset.seq_len - 1 - i + 1]
                /\ item.inp_data[i + 1] \in 0..(dataset.num_categories - 1)
                /\ item.labels[i + 1] \in 0..(dataset.num_categories - 1)
          /\ Flip(item.labels) = item.inp_data

\* the second of two calls, on the last row of a dataset of MaxSize rows of
\* MaxSeqLen entries that is not its own reverse
C24_Witness ==
    /\ item.valid /\ ~item.err
    /\ item.calls = MaxCalls
    /\ dataset.size = MaxSize /\ dataset.seq_len = MaxSeqLen
    /\ item.idx = dataset.size - 1
    /\ item.labels # item.inp_data
    /\ Cardinality({item.inp_data[i] : i \in 1..MaxSeqLen}) = MaxCategories

(***************************************************************************)
(* get_attention_maps against forward.                                     *)
(***************************************************************************)
\* the attention weights block i computes during the forward call recorded
\* in call_
ForwardAttention(self, call_, i) ==
    MhaForward(self.layers[i].self_attn, call_.calls[i].x, call_.mask).attention

\* C25: in evaluation mode the i-th matrix returned by
\* get_attention_maps(x, mask) equals the attention weights block i computes
\* during forward(x, mask), and the diagnostic pass gives block i the input
\* the main pass gives it.
C25_MapsMatchForward ==
    (enc_out.valid /\ enc_maps.valid /\ ~enc_out.training /\ ~enc.training
       /\ ~enc_out.err /\ ~enc_maps.err
       /\ enc_out.arg = enc_maps.arg /\ enc_out.mask = enc_maps.mask) =>
        /\ Len(enc_maps.attention_maps) = Len(enc_out.calls)
        /\ \A i \in 1..Len(enc_maps.attention_maps) :
              /\ enc_maps.inputs[i] = enc_out.calls[i].x
              /\ enc_maps.attention_maps[i] = ForwardAttention(enc, enc_out, i)

\* in evaluation mode, forward and get_attention_maps on two blocks with a
\* causal mask, the second block's input and map differing from the first's
C25_Witness ==
    /\ enc_out.valid /\ enc_maps.valid
    /\ ~enc_out.training /\ ~enc.training
    /\ ~enc_out.err /\ ~enc_maps.err
    /\ enc_maps.mask # NoMask /\ enc_out.mask = enc_maps.mask
    /\ Len(enc_maps.attention_maps) = 2
    /\ enc.block_args.num_heads = 2
    /\ enc_maps.inputs[2] # enc_maps.inputs[1]
    /\ enc_maps.attention_maps[2] # enc_maps.attention_maps[1]
    /\ enc_maps.attention_maps[2] = ForwardAttention(enc, enc_out, 2)

(***************************************************************************)
(* The two definitions of scaled_dot_product.                              *)
(***************************************************************************)
\* C26: for every q, k, v the output of the assignment notebook's
\* scaled_dot_product equals the first component of the pair the lab
\* notebook's scaled_dot_product returns.
C26_DefinitionsAgree ==
    /\ (op = "scaled_dot_product" /\ ~sdp.err) =>
          AssignmentScaledDotProduct(q, k, v, mask) = sdp.output
    /\ op = "worked_example" =>
          /\ ~ScaledDotProduct(q, k, v, mask).err
          /\ sdp.output = ScaledDotProduct(q, k, v, mask).output

\* a call on batched inputs with two heads, T = 2 and d_k = 1, with a mask,
\* whose output is a proper mixture of the rows of v
C26_Witness ==
    /\ op = "scaled_dot_product"
    /\ ~sdp.err
    /\ Rank(q) = 4
    /\ k.shape = <<MaxB, 2, 2, 1>>
    /\ mask # NoMask
    /\ sdp.output # v
    /\ \E s \in DOMAIN sdp.output.data : sdp.output.data[s] # 0

(***************************************************************************)
(* Post-processing of the generated predictions (src/unnamed/part_000).    *)
(* A string is a sequence of one-character strings, an index is Python's   *)
(* (0-based).                                                              *)
(***************************************************************************)
MaxRows == 2   \* rows of the test CSV 0..MaxRows

\* special tokens of the tokenizer of facebook/opt-2.7b
pad_token    == <<"<", "p", "a", "d", ">">>
eos_token    == <<"<", "/", "s", ">">>
pad_token_id == 1
eos_token_id == 2
IgnoreIndex  == -100

\* keyword = 'Prediction:'
Keyword == <<"P", "r", "e", "d", "i", "c", "t", "i", "o", "n", ":">>

\* the text of a token id: the two special tokens, and five entries standing
\* for the vocabulary
TokenText(id) ==
    CASE id = pad_token_id -> pad_token
      [] id = eos_token_id -> eos_token
      [] id = 3 -> <<"C", "o", "n", "t", "e", "x", "t", ":", " ", "a", ".", " ">>
      [] id = 4 -> Keyword
      [] id = 5 -> <<" ", "b">>
      [] id = 6 -> <<"<", "p">>
      [] id = 7 -> <<"a", "d", ">">>
      [] OTHER  -> <<"?">>

\* the rows of eval_result.predictions: a generated beginning and end each
Heads == {<<1, 1, 4>>, <<2, 3, 4>>, <<2, 3, 5>>, <<4, 6, 6>>, <<1, 2, 3>>}
Tails == {<<5, 2, 2>>, <<5, 5, IgnoreIndex>>, <<2, 5, IgnoreIndex>>, <<1, 7, 7>>,
          <<6, 1, 7>>, <<4, 5, 2>>, <<1, 1, 1>>}
PredictionRows == {h \o t : h \in Heads, t \in Tails}

\* logits[logits == -100] = tokenizer.eos_token_id
FillIgnored(rows) ==
    [r \in 1..Len(rows) |->
        [c \in 1..Len(rows[r]) |->
            IF rows[r][c] = IgnoreIndex THEN eos_token_id ELSE rows[r][c]]]

\* tokenizer.decode of one row: the texts of its tokens, special tokens kept
RECURSIVE Decode(_)
Decode(ids) ==
    IF ids = <<>> THEN <<>> ELSE TokenText(Head(ids)) \o Decode(Tail(ids))

\* tokenizer.batch_decode(logits)
BatchDecode(rows) == [r \in 1..Len(rows) |-> Decode(rows[r])]

\* sub occurs in tt at index i
StrAt(tt, i, sub) ==
    /\ i >= 0 /\ i + Len(sub) <= Len(tt)
    /\ \A j \in 1..Len(sub) : tt[i + j] = sub[j]

\* sub in tt
StrIn(sub, tt) == \E i \in 0..Len(tt) : StrAt(tt, i, sub)

\* tt.index(sub), for sub in tt
StrIndex(tt, sub) ==
    CHOOSE i \in 0..Len(tt) :
        StrAt(tt, i, sub) /\ \A j \in 0..(i - 1) : ~StrAt(tt, j, sub)

\* tt[n:] and tt[:n]
StrFrom(tt, n) == SubSeq(tt, n + 1, Len(tt))
StrUpto(tt, n) == SubSeq(tt, 1, n)

\* tt.replace(old, new) from index i on: non-overlapping occurrences, found
\* from left to right in one pass
RECURSIVE StrReplaceFrom(_, _, _, _)
StrReplaceFrom(tt, i, old, new) ==
    IF i >= Len(tt) THEN <<>>
    ELSE IF StrAt(tt, i, old)
         THEN new \o StrReplaceFrom(tt, i + Len(old), old, new)
         ELSE <<tt[i + 1]>> \o StrReplaceFrom(tt, i + 1, old, new)

StrReplace(tt, old, new) == StrReplaceFrom(tt, 0, old, new)

\* the body of the extraction loop for one decoded text: whether a result is
\* appended, and the result
ExtractCut(tt) ==
    IF StrIn(eos_token, tt) THEN StrUpto(tt, StrIndex(tt, eos_token)) ELSE tt

ExtractKeyword(tt) ==
    IF StrIn(Keyword, tt)
    THEN [found |-> TRUE,
          tt    |-> ExtractCut(StrFrom(tt, StrIndex(tt, Keyword) + Len(Keyword)))]
    ELSE [found |-> FALSE, tt |-> tt]

ExtractOne(tt) ==
    ExtractKeyword(StrReplace(StrReplace(tt, pad_token, <<>>), pad_token, <<>>))

\* the body of the clean-up loop for one result
CleanOne(xx) ==
    IF xx = <<>> THEN xx
    ELSE IF Head(xx) = " " THEN StrFrom(xx, 1) ELSE xx

NoPost == [pc |-> "predict", logits |-> <<>>, i |-> 0, j |-> 0, empty |-> 0,
           rows |-> 0, raised |-> FALSE, prediction |-> <<>>]

\* eval_result = trainer.predict(test_dataset, ...): one row of token ids per
\* row of the test CSV
InitPost ==
    /\ \E n \in 0..MaxRows : \E rows \in [1..n -> PredictionRows] :
         post = [NoPost EXCEPT !.logits = rows, !.rows = n]
    /\ predicted_text = <<>>
    /\ results = <<>>
    /\ broken_count = 0
    /\ new_results = <<>>
    /\ DataIdle
    /\ ColIdle
    /\ CoreIdle

\* logits[logits == -100] = eos_token_id; predicted_text = batch_decode(logits);
\* results = []; broken_count = 0
DecodeCall ==
    /\ post.pc = "predict"
    /\ post' = [post EXCEPT !.pc = "extract", !.i = 0,
                            !.logits = FillIgnored(post.logits)]
    /\ predicted_text' = BatchDecode(post'.logits)
    /\ results' = <<>>
    /\ broken_count' = 0
    /\ UNCHANGED <<new_results, dataVars, colVars, coreVars>>

\* one iteration of 'for tt in predicted_text'
ExtractStep ==
    /\ post.pc = "extract"
    /\ post.i < Len(predicted_text)
    /\ post' = [post EXCEPT !.i = post.i + 1]
    /\ IF ExtractOne(predicted_text[post.i + 1]).found
       THEN /\ results' = Append(results, ExtractOne(predicted_text[post.i + 1]).tt)
            /\ UNCHANGED broken_count
       ELSE /\ broken_count' = broken_count + 1
            /\ UNCHANGED results
    /\ UNCHANGED <<predicted_text, new_results, dataVars, colVars, coreVars>>

\* empty = 0; new_results = []
CleanupInit ==
    /\ post.pc = "extract"
    /\ post.i = Len(predicted_text)
    /\ post' = [post EXCEPT !.pc = "cleanup", !.j = 0, !.empty = 0]
    /\ new_results' = <<>>
    /\ UNCHANGED <<predicted_text, results, broken_count, dataVars, colVars, coreVars>>

\* one iteration of 'for x in results'
CleanupStep ==
    /\ post.pc = "cleanup"
    /\ post.j < Len(results)
    /\ post' = [post EXCEPT !.j = post.j + 1,
                            !.empty = IF results[post.j + 1] = <<>>
                                      THEN post.empty + 1 ELSE post.empty]
    /\ new_results' = Append(new_results, CleanOne(results[post.j + 1]))
    /\ UNCHANGED <<predicted_text, results, broken_count, dataVars, colVars, coreVars>>

\* results_dataset = pd.read_csv(...); results_dataset['prediction'] =
\* new_results: pandas raises ValueError when the lengths differ
AssignPrediction ==
    /\ post.pc = "cleanup"
    /\ post.j = Len(results)
    /\ post' = IF Len(new_results) = post.rows
               THEN [post EXCEPT !.pc = "assigned", !.prediction = new_results]
               ELSE [post EXCEPT !.pc = "assigned", !.raised = TRUE]
    /\ UNCHANGED <<predicted_text, results, broken_count, new_results,
                   dataVars, colVars, coreVars>>

NextPost == DecodeCall \/ ExtractStep \/ CleanupInit \/ CleanupStep \/ AssignPrediction

SpecPost == InitPost /\ [][NextPost]_vars

\* C27: after the post-processing new_results holds exactly one entry per
\* row of the test CSV, in row order, for every list of decoded predictions:
\* the assignment of the prediction column does not fail and row i's
\* prediction comes from row i's generated text.
C27_OneEntryPerRow ==
    /\ (post.pc = "cleanup" /\ post.j = Len(results)) =>
          Len(new_results) = post.rows
    /\ post.pc = "assigned" =>
          /\ ~post.raised
          /\ Len(post.prediction) = post.rows
          /\ \A r \in 1..Len(post.prediction) :
                post.prediction[r] = CleanOne(ExtractOne(predicted_text[r]).tt)

\* the results the extraction loop appends for the texts tts, in their order
RECURSIVE ExpectedResults(_)
ExpectedResults(tts) ==
    IF tts = <<>> THEN <<>>
    ELSE (IF ExtractOne(Head(tts)).found THEN <<ExtractOne(Head(tts)).tt>> ELSE <<>>)
         \o ExpectedResults(Tail(tts))

\* xx is the text of tt after the first 'Prediction:', cut before the first
\* end-of-sequence token that follows
AfterFirstKeyword(tt, xx) ==
    \E i \in 0..Len(tt) :
       /\ StrAt(tt, i, Keyword)
       /\ \A h \in 0..(i - 1) : ~StrAt(tt, h, Keyword)
       /\ \E n \in 0..Len(tt) :
             /\ i + Len(Keyword) + n <= Len(tt)
             /\ xx = SubSeq(tt, i + Len(Keyword) + 1, i + Len(Keyword) + n)
             /\ \/ i + Len(Keyword) + n = Len(tt)
                \/ StrAt(tt, i + Len(Keyword) + n, eos_token)

\* C28 (counting and order): len(results) + broken_count is the number of
\* predictions processed, and results holds the results of the processed
\* predictions that have the keyword, in the order of the predictions.
C28_CountAndOrder ==
    post.pc \in {"extract", "cleanup", "assigned"} =>
        /\ Len(results) + broken_count = post.i
        /\ results = ExpectedResults(SubSeq(predicted_text, 1, post.i))

\* C28 (end of sequence): no result contains the end-of-sequence token, and
\* each is the text after the first 'Prediction:' of the prediction without
\* its pad tokens, cut before the first end-of-sequence token.
C28_ResultCut ==
    /\ \A r \in 1..Len(results) : ~StrIn(eos_token, results[r])
    /\ \A r \in 1..Len(predicted_text) :
          ExtractOne(predicted_text[r]).found =>
              AfterFirstKeyword(StrReplace(StrReplace(predicted_text[r], pad_token, <<>>),
                                           pad_token, <<>>),
                                ExtractOne(predicted_text[r]).tt)

\* C28: the extraction loop keeps len(results) + broken_count equal to the
\* number of predictions processed, results keeps the order of the
\* predictions, and no result contains the end-of-sequence token or a pad
\* token.
C28_ExtractionInvariant ==
    /\ C28_CountAndOrder
    /\ C28_ResultCut
    /\ \A r \in 1..Len(results) : ~StrIn(pad_token, results[r])

(***************************************************************************)
(* data_collator_customized (src/unnamed/part_000).                        *)
(***************************************************************************)
MaxFeatures == 2   \* features of one batch 1..MaxFeatures
LongText    == 120 \* characters of the longest context

MAX_TOKEN_LENGTH == 128

\* tokenizer.bos_token of facebook/opt-2.7b is its end-of-sequence token
bos_token == eos_token

\* the characters of the texts, in the order of their token ids
Alphabet == <<"C", "o", "n", "t", "e", "x", ":", ".", "P", "r", "d", "i", "a", "b", "c", " ">>

\* the text of n characters ch
Repeat(ch, n) == [i \in 1..n |-> ch]

\* the column 'context' and the column 'target' of the CSV
Contexts == {<<"a">>, <<"a", "b">>, Repeat("a", LongText)}
Targets  == {<<" ", "b">>, <<"b", "a", "b">>}
Splits   == {"train", "test", "validation"}

\* TrainDataset(dataset, split)[idx] and TestDataset(dataset, split)[idx]
TrainDatasetItems ==
    {[input |-> c, target |-> t, split |-> sp] :
        c \in Contexts, t \in Targets, sp \in Splits}
TestDatasetItems ==
    {[input |-> c, split |-> sp] : c \in Contexts, sp \in Splits}

\* index i of tt is inside a special token that starts before it (two
\* occurrences of special tokens never overlap: each starts with its only "<")
InsideSpecial(tt, i) ==
    \E h \in (i - Len(pad_token))..(i - 1) :
       \/ StrAt(tt, h, eos_token) /\ h + Len(eos_token) > i
       \/ StrAt(tt, h, pad_token) /\ h + Len(pad_token) > i

\* the id of the token that starts at index i of tt: a special token is one
\* token, every other character is a token of its own (a byte-level
\* vocabulary without merges)
TokenAt(tt, i) ==
    IF StrAt(tt, i, eos_token) THEN eos_token_id
    ELSE IF StrAt(tt, i, pad_token) THEN pad_token_id
    ELSE eos_token_id + (CHOOSE n \in 1..Len(Alphabet) : Alphabet[n] = tt[i + 1])

\* the ids of the tokens of tt that start at the indexes lo..hi-1
RECURSIVE TokenizeRange(_, _, _)
TokenizeRange(tt, lo, hi) ==
    IF lo >= hi THEN <<>>
    ELSE IF hi = lo + 1
         THEN (IF InsideSpecial(tt, lo) THEN <<>> ELSE <<TokenAt(tt, lo)>>)
         ELSE TokenizeRange(tt, lo, (lo + hi) \div 2)
              \o TokenizeRange(tt, (lo + hi) \div 2, hi)

Tokenize(tt) == TokenizeRange(tt, 0, Len(tt))

\* truncation=True, max_length: truncation_side is 'right'
Truncate(ids, max_length) ==
    IF Len(ids) > max_length THEN SubSeq(ids, 1, max_length) ELSE ids

\* padding to length n: padding_side is 'right'
PadRight(ids, n, fill) == ids \o [i \in 1..(n - Len(ids)) |-> fill]

LongestRow(ns) == IF ns = <<>> THEN 0
                  ELSE CHOOSE m \in {ns[i] : i \in 1..Len(ns)} :
                          \A i \in 1..Len(ns) : ns[i] <= m

\* rtokenizer(texts, add_special_tokens=False, padding=..., truncation=True,
\* max_length=...): padding is "max_length" or "longest" (padding=True)
RtokenizerPad(rows, n) ==
    [input_ids      |-> [r \in 1..Len(rows) |-> PadRight(rows[r], n, pad_token_id)],
     attention_mask |-> [r \in 1..Len(rows) |->
                            PadRight([c \in 1..Len(rows[r]) |-> 1], n, 0)]]

Rtokenizer(texts, padding, max_length) ==
    LET rows == [r \in 1..Len(texts) |->
                    Truncate(Tokenize(texts[r]), max_length)]
    IN  RtokenizerPad(rows, IF padding = "max_length" THEN max_length
                            ELSE LongestRow([r \in 1..Len(rows) |-> Len(rows[r])]))

\* f'{bos_token}Context: {i}. Prediction: '
InferencePrompt(i) ==
    bos_token \o <<"C", "o", "n", "t", "e", "x", "t", ":", " ">> \o i \o <<".", " ", "P", "r", "e", "d", "i", "c", "t", "i", "o", "n", ":", " ">>

\* f'{bos_token}Context: {i}. Prediction:{t}{eos_token}'
TrainingPrompt(i, t) ==
    bos_token \o <<"C", "o", "n", "t", "e", "x", "t", ":", " ">> \o i \o <<".", " ", "P", "r", "e", "d", "i", "c", "t", "i", "o", "n", ":">> \o t \o eos_token

NoCollate == [valid |-> FALSE, err |-> FALSE, for_inference |-> FALSE,
              concated_text |-> <<>>, batch |-> <<>>]

\* data_collator_customized with the padding positions of labels set to -100
DataCollatorMaskedLabels(ff) ==
    LET split == ff[1].split
        texts == [r \in 1..Len(ff) |-> TrainingPrompt(ff[r].input, ff[r].target)]
        lm    == Rtokenizer(texts, "max_length", MAX_TOKEN_LENGTH)
    IN  IF \E r \in 1..Len(ff) : \E key \in DOMAIN ff[1] : key \notin DOMAIN ff[r]
        THEN [NoCollate EXCEPT !.valid = TRUE, !.err = TRUE]
        ELSE IF split = "test"
        THEN [valid |-> TRUE, err |-> FALSE, for_inference |-> TRUE,
              concated_text |-> [r \in 1..Len(ff) |-> InferencePrompt(ff[r].input)],
              batch |-> Rtokenizer([r \in 1..Len(ff) |-> InferencePrompt(ff[r].input)],
                                   "longest", MAX_TOKEN_LENGTH)]
        ELSE IF "target" \notin DOMAIN ff[1]
        THEN [NoCollate EXCEPT !.valid = TRUE, !.err = TRUE]
        ELSE [valid |-> TRUE, err |-> FALSE, for_inference |-> FALSE,
              concated_text |-> texts,
              batch |-> [input_ids      |-> lm.input_ids,
                         attention_mask |-> lm.attention_mask,
                         labels |-> [r \in 1..Len(ff) |->
                                       [c \in 1..Len(lm.input_ids[r]) |->
                                          IF lm.attention_mask[r][c] = 0
                                          THEN IgnoreIndex
                                          ELSE lm.input_ids[r][c]]]]]

\* data_collator_customized(features): the batch returned, the texts that
\* were tokenized, and whether the call raised KeyError ('[f[key] for f in
\* features]' for a key of features[0] that a feature lacks, or
\* batchfied_features['target'])
CollateInference(ff, texts) ==
    [valid |-> TRUE, err |-> FALSE, for_inference |-> TRUE,
     concated_text |-> texts,
     batch |-> Rtokenizer(texts, "longest", MAX_TOKEN_LENGTH)]

CollateTrainingBatch(texts, lm_input) ==
    [valid |-> TRUE, err |-> FALSE, for_inference |-> FALSE,
     concated_text |-> texts,
     batch |-> [input_ids      |-> lm_input.input_ids,
                attention_mask |-> lm_input.attention_mask,
                labels         |-> lm_input.input_ids]]

CollateTraining(ff, texts) ==
    CollateTrainingBatch(texts, Rtokenizer(texts, "max_length", MAX_TOKEN_LENGTH))

DataCollatorCustomized(ff) ==
    IF \E r \in 1..Len(ff) : \E key \in DOMAIN ff[1] : key \notin DOMAIN ff[r]
    THEN [NoCollate EXCEPT !.valid = TRUE, !.err = TRUE]
    ELSE IF ff[1].split = "test"
    THEN CollateInference(ff, [r \in 1..Len(ff) |-> InferencePrompt(ff[r].input)])
    ELSE IF "target" \notin DOMAIN ff[1]
    THEN [NoCollate EXCEPT !.valid = TRUE, !.err = TRUE]
    ELSE CollateTraining(ff, [r \in 1..Len(ff) |->
                                 TrainingPrompt(ff[r].input, ff[r].target)])

\* the features of one batch are drawn first
InitCollate ==
    /\ \E n \in 1..MaxFeatures :
         features \in [1..n -> TrainDatasetItems \cup TestDatasetItems]
    /\ batch = NoCollate
    /\ DataIdle
    /\ PostIdle
    /\ CoreIdle

\* batch = data_collator_customized(features)
CollateCall ==
    /\ ~batch.valid
    /\ batch' = DataCollatorCustomized(features)
    /\ UNCHANGED <<features, dataVars, postVars, coreVars>>

NextCollate == CollateCall

SpecCollate == InitCollate /\ [][NextCollate]_vars

\* C29: data_collator_customized takes its mode from the split of the first
\* feature only. When it is 'test' the batch returned has no 'labels' and
\* each prompt is '<bos>Context: <input>. Prediction: ' without target text;
\* otherwise the batch has every field of the tokenizer and 'labels', labels
\* equals input_ids element for element (padding positions included), and
\* every sequence has exactly MAX_TOKEN_LENGTH = 128 tokens.
C29_CollatorModes ==
    (batch.valid /\ ~batch.err) =>
        /\ batch.for_inference = (features[1].split = "test")
        /\ Len(batch.concated_text) = Len(features)
        /\ batch.for_inference =>
              /\ DOMAIN batch.batch = {"input_ids", "attention_mask"}
              /\ \A r \in 1..Len(features) :
                    batch.concated_text[r]
                       = eos_token \o <<"C", "o", "n", "t", "e", "x", "t", ":", " ">> \o features[r].input \o <<".", " ", "P", "r", "e", "d", "i", "c", "t", "i", "o", "n", ":", " ">>
              /\ batch.batch.input_ids
                    = Rtokenizer(batch.concated_text, "longest",
                                 MAX_TOKEN_LENGTH).input_ids
        /\ ~batch.for_inference =>
              /\ DOMAIN batch.batch = {"input_ids", "attention_mask", "labels"}
              /\ Len(batch.batch.input_ids) = Len(features)
              /\ Len(batch.batch.labels) = Len(features)
              /\ \A r \in 1..Len(features) :
                    /\ Len(batch.batch.input_ids[r]) = MAX_TOKEN_LENGTH
                    /\ Len(batch.batch.attention_mask[r]) = MAX_TOKEN_LENGTH
                    /\ Len(batch.batch.labels[r]) = MAX_TOKEN_LENGTH
                    /\ \A c \in 1..MAX_TOKEN_LENGTH :
                          batch.batch.labels[r][c] = batch.batch.input_ids[r][c]

\* a training batch of two features, the second one a test feature given a
\* target: one sequence is truncated to 128 tokens, the other one is padded
C29_Witness ==
    /\ batch.valid /\ ~batch.err /\ ~batch.for_inference
    /\ Len(features) = 2
    /\ features[1].split = "train" /\ features[2].split = "test"
    /\ Len(Tokenize(batch.concated_text[1])) > MAX_TOKEN_LENGTH
    /\ batch.batch.attention_mask[1][MAX_TOKEN_LENGTH] = 1
    /\ batch.batch.labels[2][MAX_TOKEN_LENGTH] = pad_token_id
    /\ batch.batch.attention_mask[2][MAX_TOKEN_LENGTH] = 0

(***************************************************************************)
(* The validation loop over val_loader (Lab12_Transformers2.ipynb).        *)
(***************************************************************************)
\* dataset = partial(ReverseDataset, 10, 16); val_loader = DataLoader(
\* dataset(1000), batch_size=64, drop_last=True, shuffle=False)
DatasetCategories == 10
DatasetSeqLen     == 16
ValDatasetSize    == 1000
ValBatchSize      == 64

\* F.one_hot(inputs, num_classes=10) and outputs.view(1024, 10)
OneHotClasses == 10
ViewRows      == 1024
ViewColumns   == 10

\* the values loss.item() takes, in units of 1/FX
BatchLosses == {FX \div 2, 2 * FX}

\* data.DataLoader(dataset, batch_size=..., drop_last=..., shuffle=False)
DataLoader(ds, batch_size, drop_last) ==
    [state |-> "constructed", size |-> ReverseDatasetLen(ds),
     batch_size |-> batch_size, drop_last |-> drop_last]

\* len(loader)
DataLoaderLen(self) ==
    IF self.drop_last THEN self.size \div self.batch_size
    ELSE (self.size + self.batch_size - 1) \div self.batch_size

\* an iterator that yields the last, incomplete batch as well
HasBatchKeepLast(self, n) == n * self.batch_size < self.size

\* the iterator of the loader has a batch number n (from 0): the sampler
\* goes through the indexes in order, batch_size at a time, and an incomplete
\* last batch is dropped when drop_last is set
HasBatch(self, n) ==
    /\ n * self.batch_size < self.size
    /\ self.drop_last => (n + 1) * self.batch_size <= self.size

\* the indexes of batch number n
BatchIndexes(self, n) ==
    [c \in 1..(IF (n + 1) * self.batch_size <= self.size THEN self.batch_size
               ELSE self.size - n * self.batch_size) |->
        n * self.batch_size + c - 1]

\* batch number n of the loader: the items of its indexes, stacked
NextBatch(self, ds, n) ==
    [inputs |-> [c \in 1..Len(BatchIndexes(self, n)) |->
                    GetItem(ds, BatchIndexes(self, n)[c]).inp_data],
     labels |-> [c \in 1..Len(BatchIndexes(self, n)) |->
                    GetItem(ds, BatchIndexes(self, n)[c]).labels]]

\* the shape of a stacked batch of rows
StackShape(rows) == IF rows = <<>> THEN <<0>> ELSE <<Len(rows), Len(rows[1])>>

\* the number of elements of a shape
RECURSIVE NumElements(_)
NumElements(shape) ==
    IF shape = <<>> THEN 1 ELSE Head(shape) * NumElements(Tail(shape))

\* t.view(shape) works when the numbers of elements agree
ViewOk(shape, target) == NumElements(shape) = NumElements(target)

\* the sum of the losses counted in counts (loss value -> number of batches)
RECURSIVE LossSum(_, _)
LossSum(counts, values) ==
    IF values = {} THEN 0
    ELSE LET l == CHOOSE l \in values : TRUE
         IN  l * counts[l] + LossSum(counts, values \ {l})

RECURSIVE LossCount(_, _)
LossCount(counts, values) ==
    IF values = {} THEN 0
    ELSE LET l == CHOOSE l \in values : TRUE
         IN  counts[l] + LossCount(counts, values \ {l})

\* losses: for every loss value the number of batches that had it
NoVal == [pc |-> "start", i |-> 0, val_loss |-> 0,
          losses |-> [l \in BatchLosses |-> 0],
          inputs_shape |-> <<>>, labels_shape |-> <<>>, outputs_shape |-> <<>>,
          first_label |-> <<>>, first_input |-> <<>>,
          raised |-> FALSE, reported |-> 0, len_loader |-> 0]

\* the data of dataset(1000) is drawn by a seed
InitVal ==
    /\ \E seed \in Seeds :
         dataset = ReverseDatasetArgs(DatasetCategories, DatasetSeqLen,
                                      ValDatasetSize, seed)
    /\ item = NoItem
    /\ loader = NoObject
    /\ val = NoVal
    /\ PostIdle
    /\ ColIdle
    /\ CoreIdle

\* val_loader = data.DataLoader(dataset(1000), batch_size=64, drop_last=True,
\* shuffle=False)
DataLoaderCall ==
    /\ dataset.state = "constructed"
    /\ loader = NoObject
    /\ loader' = DataLoader(dataset, ValBatchSize, TRUE)
    /\ UNCHANGED <<dataset, item, val, postVars, colVars, coreVars>>

\* model.eval(); val_loss = 0
ValLoopStart ==
    /\ loader # NoObject
    /\ val.pc = "start"
    /\ val' = [val EXCEPT !.pc = "loop", !.val_loss = 0]
    /\ UNCHANGED <<dataset, item, loader, postVars, colVars, coreVars>>

\* the body of the loop for the batch with shapes inputs_shape and
\* labels_shape: outputs = model(one_hot(inputs)) has a row of num_classes
\* logits per position; outputs.view(1024, 10) and the criterion raise when
\* the sizes do not fit
ValBody(w, inputs_shape, labels_shape, outputs_shape, first_input, first_label, loss) ==
    IF /\ ViewOk(outputs_shape, <<ViewRows, ViewColumns>>)
       /\ ViewRows = NumElements(labels_shape)
    THEN [w EXCEPT !.i = w.i + 1,
                   !.inputs_shape = inputs_shape, !.labels_shape = labels_shape,
                   !.outputs_shape = outputs_shape,
                   !.first_input = first_input, !.first_label = first_label,
                   !.val_loss = w.val_loss + loss,
                   !.losses = [w.losses EXCEPT ![loss] = w.losses[loss] + 1]]
    ELSE [w EXCEPT !.pc = "raised", !.raised = TRUE,
                   !.inputs_shape = inputs_shape, !.labels_shape = labels_shape,
                   !.outputs_shape = outputs_shape]

ValBatchOf(w, b, loss) ==
    ValBody(w, StackShape(b.inputs), StackShape(b.labels),
            StackShape(b.inputs) \o <<OneHotClasses>>,
            b.inputs[1], b.labels[1], loss)

\* one iteration of 'for inputs, labels in val_loader'
ValBatch ==
    /\ val.pc = "loop"
    /\ HasBatch(loader, val.i)
    /\ \E loss \in BatchLosses :
         val' = ValBatchOf(val, NextBatch(loader, dataset, val.i), loss)
    /\ UNCHANGED <<dataset, item, loader, postVars, colVars, coreVars>>

\* print(f"Validation Loss: {val_loss / len(val_loader)}")
ValReport ==
    /\ val.pc = "loop"
    /\ ~HasBatch(loader, val.i)
    /\ val' = [val EXCEPT !.pc = "done",
                          !.len_loader = DataLoaderLen(loader),
                          !.reported = val.val_loss \div DataLoaderLen(loader)]
    /\ UNCHANGED <<dataset, item, loader, postVars, colVars, coreVars>>

NextVal == DatasetInitCall \/ DataLoaderCall \/ ValLoopStart \/ ValBatch \/ ValReport

SpecVal == InitVal /\ [][NextVal]_vars

\* C30: in the validation loop every batch holds exactly 64 sequences of
\* length 16, so outputs has 64 * 16 = 1024 rows of 10 logits and
\* outputs.view(1024, 10) and labels.view(-1) have matching sizes; the loop
\* processes exactly len(val_loader) = floor(1000 / 64) = 15 batches, and the
\* reported value is the sum of the per-batch losses divided by that count.
C30_ValidationBatches ==
    /\ ~val.raised
    /\ val.i >= 1 =>
          /\ val.inputs_shape = <<64, 16>>
          /\ val.labels_shape = <<64, 16>>
          /\ val.outputs_shape = <<64, 16, 10>>
          /\ NumElements(val.outputs_shape) = 1024 * 10
          /\ NumElements(val.labels_shape) = 1024
          /\ val.first_input = dataset.data[(val.i - 1) * 64 + 1]
          /\ val.first_label = Flip(val.first_input)
    /\ val.i <= 15
    /\ LossCount(val.losses, BatchLosses) = val.i
    /\ val.val_loss = LossSum(val.losses, BatchLosses)
    /\ loader # NoObject => DataLoaderLen(loader) = 15
    /\ val.pc = "done" =>
          /\ val.i = 15
          /\ val.len_loader = 1000 \div 64
          /\ val.reported = LossSum(val.losses, BatchLosses) \div 15

\* the report after fifteen batches with different losses, the last batch
\* ending at row 960 of the 1000 rows
C30_Witness ==
    /\ val.pc = "done"
    /\ val.i = 15
    /\ val.first_input = dataset.data[897]
    /\ Len(dataset.data) = 1000
    /\ \A l \in BatchLosses : val.losses[l] >= 1
    /\ val.reported > 0
====
